---- MODULE Spec2Model ----
(***************************************************************************)
(* Volunteer route coordination: the slot reservation subsystem.           *)
(*                                                                         *)
(* The store is the PostgreSQL schema of DATABASE_SCHEMA.md,               *)
(* DATABASE_SCHEMA_ROUTE_REQUIREMENTS.sql (weeks, routes, assignments,     *)
(* route_requirements, profiles).  The operations are the PL/pgSQL         *)
(* function sign_up_for_route_safe (CREATE_SIGNUP_FUNCTION.sql) and the    *)
(* Supabase client calls of lib/supabase/admin.ts and                      *)
(* lib/supabase/volunteer.ts.                                              *)
(*                                                                         *)
(* sign_up_for_route_safe runs in one READ COMMITTED transaction: every    *)
(* SQL statement of the function reads the rows committed when that        *)
(* statement starts, so each statement is one step of the model and other  *)
(* transactions may commit between two statements.  The advisory lock is   *)
(* transaction scoped: it is released when the function returns.           *)
(***************************************************************************)
EXTENDS Integers, Sequences, FiniteSets, TLC

(***************************************************************************)
(* Bounds of the model.                                                    *)
(***************************************************************************)
NWeeks == 2
NRoutes == 2
NVolunteers == 2
NDays == 2
NCallers == 2
MaxCap == 2
MaxRows == 3
MaxReqRows == 1
NSignups == 1
NAdminWeeks == 1
MaxStoreRows == 2
MaxSeen == 3
HashMod == 5
MaxRecords == 1
MaxWeekRows == 2

(***************************************************************************)
(* Identities.  Rows of weeks exist for WeekIds; AbsentWeek is a week id   *)
(* a caller may pass for which no row exists.                              *)
(***************************************************************************)
WeekIds == 1..NWeeks
AbsentWeek == NWeeks + 1
InputWeeks == WeekIds \cup {AbsentWeek}
Routes == 1..NRoutes
\* A burst of signups on one slot takes twice its capacity in callers, each a
\* volunteer of their own.
BurstSize == 2 * MaxCap
Volunteers == 1..BurstSize
Procs == 1..BurstSize
\* The volunteers and the connections that issue arbitrary calls.
InputVolunteers == 1..NVolunteers
Callers == 1..NCallers

\* The fixed weekday order used by getOpenSlots and the admin views.
days == <<"Monday", "Tuesday", "Wednesday", "Thursday", "Friday">>
DaySet == {days[i] : i \in 1..Len(days)}
DayIndex(d) == CHOOSE i \in 1..Len(days) : days[i] = d
\* The weekdays operations are called with.
InputDays == {days[i] : i \in 1..NDays}

(***************************************************************************)
(* SQL NULL: a nullable value is <<>> (NULL) or <<x>>.                     *)
(***************************************************************************)
NULL == <<>>
Some(x) == <<x>>
IsNull(o) == o = NULL
Val(o) == o[1]

VARIABLES
  weeks,             \* week id -> [published]          (table weeks)
  requirements,      \* set of route_requirements rows
  assignments,       \* set of assignments rows
  nextId,            \* ids handed out to assignment rows so far
  locks,             \* advisory locks held: set of [key, holder]
  pc,                \* position of each sign_up_for_route_safe call
  args,              \* its parameters p_week_id, p_day_of_week, ...
  v_max_volunteers,  \* its local v_max_volunteers
  v_current_count,   \* its local v_current_count
  heldAtLock,        \* history: the volunteer held a same-day row when the
                     \* call was granted its lock
  result,            \* the JSON it returned
  apc,               \* position of the administrator's assignVolunteer call
  aargs,             \* its parameters weekId, day, routeId, volunteerId
  aresult,           \* what it returned or threw
  openSlots,         \* the list the last getOpenSlots call returned, and for whom
  lpc,               \* position of a getOpenSlots call that runs query by query
  lvol,              \* its parameter volunteerId
  lweeks,            \* the published weeks its first query returned, in order
  lreqs,             \* the requirement rows its third query returned
  seen,              \* history: the store states since that call started
  hpc,               \* position of the admin page's handleAssignVolunteer
  hargs,             \* selectedDay, selectedRouteId and the volunteer picked
  hresult,           \* the message the page shows
  page,              \* the page's state: assignments and routeRequirements
  load,              \* loadWeekData: queries pending and what they returned
  fullAtRequest,     \* history: the slot was full in the store at the request
  rresult,           \* what the last removeVolunteerFromRoute returned
  upc,               \* position of an updateVolunteerPreferences call
  uargs,             \* its parameters volunteerId and newAvailabilityDays
  utoday,            \* the clock it read in getCurrentWeek
  ufuture,           \* its local futureWeekIds
  uremove,           \* its local assignmentsToRemove
  uresult,           \* the UpdatePreferencesResult it returned
  availability,      \* profiles.availability_days of each volunteer
  cancellations,     \* set of assignment_cancellations rows
  nextCid,           \* ids handed out to cancellation rows so far
  cpc,               \* position of each cancelRoute call
  cargs,             \* its parameters and the assignment it fetched
  cresult,           \* what it returned or threw
  clog,              \* history: the cancellation rows as they were inserted
  cdeleted,          \* history: the assignment rows cancelRoute deleted
  weekRows,          \* the weeks table with its date columns, as
                     \* getOrCreateWeek and the corrective update see it
  nextWeekId,        \* ids handed out to those rows so far
  gpc,               \* position of each getOrCreateWeek call
  gargs,             \* its startDateStr and endDateStr
  gresult,           \* the week it returned, or null
  kpc,               \* position of a copyPreviousWeek call
  kargs,             \* the current week's id and the rows it fetched
  kresult,           \* what it returned or threw
  kbefore            \* history: the current week's rows when it was called

signupVars == <<locks, pc, args, v_max_volunteers, v_current_count, heldAtLock,
               result>>
storeVars == <<weeks, requirements, assignments, nextId>>
adminVars == <<apc, aargs, aresult>>
listVars == <<lpc, lvol, lweeks, lreqs>>
\* The state of the calls other than signup and assignVolunteer.
pageVars == <<hpc, hargs, hresult, page, load, fullAtRequest>>
removeVars == <<rresult>>
prefVars == <<upc, uargs, utoday, ufuture, uremove, uresult, availability>>
cancelVars == <<cpc, cargs, cresult, clog, cdeleted, nextCid>>
auditVars == <<cancellations>>
weekVars == <<weekRows, nextWeekId, gpc, gargs, gresult>>
copyVars == <<kpc, kargs, kresult, kbefore>>
clientVars == <<listVars, pageVars, removeVars, prefVars, cancelVars, auditVars,
                weekVars, copyVars>>
vars == <<weeks, requirements, assignments, nextId,
          locks, pc, args, v_max_volunteers, v_current_count, heldAtLock, result,
          apc, aargs, aresult, openSlots, lpc, lvol, lweeks, lreqs, seen,
          hpc, hargs, hresult, page, load, fullAtRequest, rresult,
          upc, uargs, utoday, ufuture, uremove, uresult, availability,
          cancellations, nextCid, cpc, cargs, cresult, clog, cdeleted,
          weekRows, nextWeekId, gpc, gargs, gresult, kpc, kargs, kresult, kbefore>>

\* The store as one value, and the history of the store kept while a
\* getOpenSlots call is between its first query and its return.
Store == [weeks |-> weeks, requirements |-> requirements, assignments |-> assignments]
Observe ==
  seen' = IF lpc' = "idle" THEN {}
          ELSE (IF lpc = "idle" THEN {} ELSE seen) \cup {Store'}

(***************************************************************************)
(* Rows.                                                                   *)
(***************************************************************************)
AssignmentRow(id, w, d, r, v) ==
  [id |-> id, week_id |-> w, day_of_week |-> d, route_id |-> r, volunteer_id |-> v]

\* assignment_cancellations; cancelled_at, which no operation reads, is
\* left out.
CancellationRow(id, assignmentId, v, w, d, r, reason) ==
  [id |-> id, assignment_id |-> assignmentId, volunteer_id |-> v, week_id |-> w,
   day_of_week |-> d, route_id |-> r, reason |-> reason]

\* assignment_id REFERENCES assignments(id) ON DELETE SET NULL: what a
\* delete that leaves the assignment rows asgs does to the cancellations.
OnDeleteSetNull(cs, asgs) ==
  {[c EXCEPT !.assignment_id =
      IF ~IsNull(@) /\ Val(@) \notin {a.id : a \in asgs} THEN NULL ELSE @] : c \in cs}

RequirementRow(w, d, r, m) ==
  [week_id |-> w, day_of_week |-> d, route_id |-> r, max_volunteers |-> m]

\* UNIQUE(week_id, day_of_week, route_id, volunteer_id): a NULL volunteer_id
\* never conflicts.
UniqueViolation(asg, w, d, r, v) ==
  \E a \in asg : /\ a.week_id = w /\ a.day_of_week = d /\ a.route_id = r
                 /\ a.volunteer_id = Some(v)

\* week_id REFERENCES weeks(id).
ForeignKeyViolation(w) == w \notin DOMAIN weeks

(***************************************************************************)
(* The queries of sign_up_for_route_safe.  SELECT ... INTO of a row that   *)
(* does not exist assigns NULL to the target.                              *)
(***************************************************************************)
SelectPublished(w) ==
  IF w \in DOMAIN weeks THEN Some(weeks[w].published) ELSE NULL

\* A day check that finds no row.
NobodyOnDay(asg, w, d, v) == FALSE

ExistingOnDay(asg, w, d, v) ==
  \E a \in asg : /\ a.week_id = w /\ a.day_of_week = d
                 /\ a.volunteer_id = Some(v)

SelectMaxVolunteers(reqs, w, d, r) ==
  LET rows == {q \in reqs : /\ q.week_id = w /\ q.day_of_week = d
                            /\ q.route_id = r}
  IN  IF rows = {} THEN NULL
      ELSE Some((CHOOSE q \in rows : TRUE).max_volunteers)

CountAssigned(asg, w, d, r) ==
  Cardinality({a \in asg : /\ a.week_id = w /\ a.day_of_week = d
                           /\ a.route_id = r /\ a.volunteer_id # NULL})

ExistingOnRoute(asg, w, d, r, v) ==
  \E a \in asg : /\ a.week_id = w /\ a.day_of_week = d /\ a.route_id = r
                 /\ a.volunteer_id = Some(v)

\* IF v_current_count >= v_max_volunteers: a NULL comparison is not true.
AtCapacity(count, max) == ~IsNull(max) /\ count >= Val(max)

\* A check that lets every week pass.
NeverUnpublished(pub) == FALSE

\* IF NOT v_week_published: NOT NULL is NULL, which is not true.
NotPublished(pub) == ~IsNull(pub) /\ ~Val(pub)

\* getRouteRequirement: data?.max_volunteers || 1, the capacity a slot
\* resolves to (1 without a row).
getRouteRequirement(reqs, w, d, r) ==
  LET rows == {q \in reqs : /\ q.week_id = w /\ q.day_of_week = d
                            /\ q.route_id = r}
  IN  IF rows = {} THEN 1
      ELSE LET m == (CHOOSE q \in rows : TRUE).max_volunteers
           IN  IF m = 0 THEN 1 ELSE m

(***************************************************************************)
(* The advisory lock key: hashtext(week_id::text || day || route_id::text).*)
(* The texts of ids have a fixed width, so the concatenation determines    *)
(* the three parts; hashtext is a deterministic hash onto a finite range,  *)
(* here a polynomial hash onto HashMod values, so distinct slots can       *)
(* collide.                                                                *)
(***************************************************************************)
SlotText(w, d, r) == <<w, DayIndex(d), r>>
hashtext(s) == (s[1] * 31 * 31 + s[2] * 31 + s[3]) % HashMod
LockKey(w, d, r) == hashtext(SlotText(w, d, r))
LockFree(key) == \A l \in locks : l.key # key

(***************************************************************************)
(* The JSON results of sign_up_for_route_safe.                             *)
(***************************************************************************)
NoResult ==
  [success |-> FALSE, error |-> "", current_count |-> NULL, max_volunteers |-> NULL]
Rejected(msg) ==
  [success |-> FALSE, error |-> msg, current_count |-> NULL, max_volunteers |-> NULL]
SlotFull(count, max) ==
  [success |-> FALSE, error |-> "This slot is now full. Please try another route.",
   current_count |-> Some(count), max_volunteers |-> max]
Accepted(count, max) ==
  [success |-> TRUE, error |-> "", current_count |-> Some(count), max_volunteers |-> max]
ErrNotPublished == "Week is not published"
ErrAlreadyAssignedThisDay == "You already have an assignment on this day"
ErrDuplicateSignup == "You are already signed up for this route"
ErrOther == "An error occurred: foreign key violation"

NoArgs == [week |-> 0, day |-> "", route |-> 0, vol |-> 0]

\* A return that leaves the advisory lock held.
ReturnHoldingLock(p, res) ==
  /\ pc' = [pc EXCEPT ![p] = "done"]
  /\ result' = [result EXCEPT ![p] = res]
  /\ locks' = locks
  /\ args' = [args EXCEPT ![p] = NoArgs]
  /\ v_max_volunteers' = [v_max_volunteers EXCEPT ![p] = Some(1)]
  /\ v_current_count' = [v_current_count EXCEPT ![p] = 0]
  /\ heldAtLock' = [heldAtLock EXCEPT ![p] = FALSE]

\* The function returns: the transaction ends, its advisory lock is released
\* and its parameters and locals are gone.
Return(p, res) ==
  /\ pc' = [pc EXCEPT ![p] = "done"]
  /\ result' = [result EXCEPT ![p] = res]
  /\ locks' = {l \in locks : l.holder # p}
  /\ args' = [args EXCEPT ![p] = NoArgs]
  /\ v_max_volunteers' = [v_max_volunteers EXCEPT ![p] = Some(1)]
  /\ v_current_count' = [v_current_count EXCEPT ![p] = 0]
  /\ heldAtLock' = [heldAtLock EXCEPT ![p] = FALSE]

\* The function goes on to its next statement.
Goto(p, label) ==
  /\ pc' = [pc EXCEPT ![p] = label]
  /\ UNCHANGED <<locks, result, heldAtLock>>

\* Rows that calls in flight may still insert fit the id budget.
InFlight == {p \in Procs : pc[p] \notin {"idle", "done"}}
IdBudget ==
  nextId + Cardinality(InFlight) + (IF apc = "idle" THEN 0 ELSE 1) < MaxRows

(***************************************************************************)
(* sign_up_for_route_safe, statement by statement.                         *)
(***************************************************************************)
\* The call arrives; SELECT published INTO v_week_published; IF NOT ...
CheckPublished(p, w, d, r, v) ==
  /\ pc[p] \in {"idle", "done"}
  /\ IF NotPublished(SelectPublished(w))
     THEN Return(p, Rejected(ErrNotPublished))
     ELSE /\ pc' = [pc EXCEPT ![p] = "checkDay"]
          /\ args' = [args EXCEPT ![p] =
                        [week |-> w, day |-> d, route |-> r, vol |-> v]]
          /\ result' = [result EXCEPT ![p] = NoResult]
          /\ UNCHANGED <<locks, v_max_volunteers, v_current_count, heldAtLock>>
  /\ UNCHANGED storeVars

\* A day check that also turns away a volunteer whose availability_days
\* lack the day.
CheckAvailabilityAndDay(p) ==
  /\ pc[p] = "checkDay"
  /\ IF \/ args[p].day \notin availability[args[p].vol]
        \/ ExistingOnDay(assignments, args[p].week, args[p].day, args[p].vol)
     THEN Return(p, Rejected(ErrAlreadyAssignedThisDay))
     ELSE /\ Goto(p, "lock")
          /\ UNCHANGED <<args, v_max_volunteers, v_current_count>>
  /\ UNCHANGED storeVars

\* SELECT id INTO v_existing_assignment ... (any route of that day)
CheckExistingDay(p) ==
  /\ pc[p] = "checkDay"
  /\ IF ExistingOnDay(assignments, args[p].week, args[p].day, args[p].vol)
     THEN Return(p, Rejected(ErrAlreadyAssignedThisDay))
     ELSE /\ Goto(p, "lock")
          /\ UNCHANGED <<args, v_max_volunteers, v_current_count>>
  /\ UNCHANGED storeVars

\* PERFORM pg_advisory_xact_lock(hashtext(...)): waits while another
\* transaction holds the key.
\* A lock that is granted whoever holds the key.
CanLockAlways(p, key) == TRUE

CanLock(p, key) == LockFree(key)

AcquireLock(p) ==
  LET key == LockKey(args[p].week, args[p].day, args[p].route)
  IN  /\ pc[p] = "lock"
      /\ CanLock(p, key)
      /\ locks' = locks \cup {[key |-> key, holder |-> p]}
      /\ pc' = [pc EXCEPT ![p] = "selectMax"]
      /\ heldAtLock' = [heldAtLock EXCEPT ![p] =
           ExistingOnDay(assignments, args[p].week, args[p].day, args[p].vol)]
      /\ UNCHANGED <<args, v_max_volunteers, v_current_count, result, storeVars>>

\* SELECT COALESCE(max_volunteers, 1) INTO v_max_volunteers ...
SelectRequirement(p) ==
  /\ pc[p] = "selectMax"
  /\ v_max_volunteers' = [v_max_volunteers EXCEPT ![p] =
       SelectMaxVolunteers(requirements, args[p].week, args[p].day, args[p].route)]
  /\ Goto(p, "count")
  /\ UNCHANGED <<args, v_current_count, storeVars>>

\* SELECT COUNT(*) INTO v_current_count ...; IF v_current_count >= v_max ...
CountAndCheckCapacity(p) ==
  LET n == CountAssigned(assignments, args[p].week, args[p].day, args[p].route)
  IN  /\ pc[p] = "count"
      /\ IF AtCapacity(n, v_max_volunteers[p])
         THEN Return(p, SlotFull(n, v_max_volunteers[p]))
         ELSE /\ v_current_count' = [v_current_count EXCEPT ![p] = n]
              /\ Goto(p, "checkDuplicate")
              /\ UNCHANGED <<args, v_max_volunteers>>
      /\ UNCHANGED storeVars

\* SELECT id INTO v_existing_assignment ... (this exact route)
CheckDuplicate(p) ==
  /\ pc[p] = "checkDuplicate"
  /\ IF ExistingOnRoute(assignments, args[p].week, args[p].day, args[p].route,
                        args[p].vol)
     THEN Return(p, Rejected(ErrDuplicateSignup))
     ELSE /\ Goto(p, "insert")
          /\ UNCHANGED <<args, v_max_volunteers, v_current_count>>
  /\ UNCHANGED storeVars

\* An insert whose row outlives the exception it raises.
InsertAssignmentNoRollback(p) ==
  LET a == args[p]
  IN  /\ pc[p] = "insert"
      /\ IF UniqueViolation(assignments, a.week, a.day, a.route, a.vol)
         THEN /\ Return(p, Rejected(ErrDuplicateSignup))
              /\ UNCHANGED <<assignments, nextId>>
         ELSE /\ assignments' = assignments \cup
                   {AssignmentRow(nextId + 1, a.week, a.day, a.route, Some(a.vol))}
              /\ nextId' = nextId + 1
              /\ IF ForeignKeyViolation(a.week)
                 THEN Return(p, Rejected(ErrOther))
                 ELSE Return(p, Accepted(v_current_count[p] + 1, v_max_volunteers[p]))
      /\ UNCHANGED <<weeks, requirements>>

\* An insert whose unique_violation falls through to WHEN OTHERS.
InsertAssignmentUnhandled(p) ==
  LET a == args[p]
  IN  /\ pc[p] = "insert"
      /\ IF UniqueViolation(assignments, a.week, a.day, a.route, a.vol)
            \/ ForeignKeyViolation(a.week)
         THEN /\ Return(p, Rejected(ErrOther))
              /\ UNCHANGED <<assignments, nextId>>
         ELSE /\ assignments' = assignments \cup
                   {AssignmentRow(nextId + 1, a.week, a.day, a.route, Some(a.vol))}
              /\ nextId' = nextId + 1
              /\ Return(p, Accepted(v_current_count[p] + 1, v_max_volunteers[p]))
      /\ UNCHANGED <<weeks, requirements>>

\* INSERT INTO assignments ...; RETURN success; EXCEPTION WHEN unique_violation
\* ... WHEN OTHERS ...  A failed insert leaves no row.
InsertAssignment(p) ==
  LET a == args[p]
  IN  /\ pc[p] = "insert"
      /\ IF UniqueViolation(assignments, a.week, a.day, a.route, a.vol)
         THEN /\ Return(p, Rejected(ErrDuplicateSignup))
              /\ UNCHANGED <<assignments, nextId>>
         ELSE IF ForeignKeyViolation(a.week)
         THEN /\ Return(p, Rejected(ErrOther))
              /\ UNCHANGED <<assignments, nextId>>
         ELSE /\ assignments' = assignments \cup
                   {AssignmentRow(nextId + 1, a.week, a.day, a.route, Some(a.vol))}
              /\ nextId' = nextId + 1
              /\ Return(p, Accepted(v_current_count[p] + 1, v_max_volunteers[p]))
      /\ UNCHANGED <<weeks, requirements>>

\* What a step of a signup leaves alone.
SignupFrame == UNCHANGED <<adminVars, openSlots, clientVars>> /\ Observe

SignupStep(p) ==
  \/ \E w \in InputWeeks, d \in InputDays, r \in Routes, v \in InputVolunteers :
       IdBudget /\ CheckPublished(p, w, d, r, v) /\ SignupFrame
  \/ CheckExistingDay(p) /\ SignupFrame
  \/ AcquireLock(p) /\ SignupFrame
  \/ SelectRequirement(p) /\ SignupFrame
  \/ CountAndCheckCapacity(p) /\ SignupFrame
  \/ CheckDuplicate(p) /\ SignupFrame
  \/ InsertAssignment(p) /\ SignupFrame


(***************************************************************************)
(* The administrator's operations (lib/supabase/admin.ts).  Each awaited   *)
(* query of assignVolunteer is one step; the single-statement operations   *)
(* are one step each.                                                      *)
(***************************************************************************)
route_number(r) == r

\* .maybeSingle(): the row when exactly one matches, else data is null (no
\* row, or an error the caller does not read).
MaybeSingle(rows) ==
  IF Cardinality(rows) = 1 THEN Some(CHOOSE a \in rows : TRUE) ELSE NULL

NoAdminResult == [ok |-> FALSE, error |-> "", route |-> 0]
AdminOk == [ok |-> TRUE, error |-> "", route |-> 0]
AdminError(msg, n) == [ok |-> FALSE, error |-> msg, route |-> n]
ErrDayConflict == "This volunteer is already assigned to Route N on day"
ErrDuplicateAssignment == "This volunteer is already assigned to this route"
ErrStore == "store error"

AdminReturn(res) ==
  /\ apc' = "idle"
  /\ aresult' = res
  /\ aargs' = NoArgs

\* assignVolunteer is called; the query for the volunteer's row of that day.
AssignCheckDay(w, d, r, v) ==
  LET existingAssignment ==
        MaybeSingle({a \in assignments : /\ a.week_id = w /\ a.day_of_week = d
                                         /\ a.volunteer_id = Some(v)})
  IN  /\ apc = "idle"
      /\ IdBudget
      /\ IF ~IsNull(existingAssignment) /\ Val(existingAssignment).route_id # r
         THEN AdminReturn(AdminError(ErrDayConflict,
                                     route_number(Val(existingAssignment).route_id)))
         ELSE /\ apc' = "checkDuplicate"
              /\ aargs' = [week |-> w, day |-> d, route |-> r, vol |-> v]
              /\ aresult' = NoAdminResult
      /\ UNCHANGED <<storeVars, signupVars, openSlots>>

\* The query for this exact (week, day, route, volunteer).
AssignCheckDuplicate ==
  LET duplicateCheck ==
        MaybeSingle({a \in assignments :
                       /\ a.week_id = aargs.week /\ a.day_of_week = aargs.day
                       /\ a.route_id = aargs.route
                       /\ a.volunteer_id = Some(aargs.vol)})
  IN  /\ apc = "checkDuplicate"
      /\ IF ~IsNull(duplicateCheck)
         THEN AdminReturn(AdminError(ErrDuplicateAssignment, 0))
         ELSE /\ apc' = "insert"
              /\ UNCHANGED <<aargs, aresult>>
      /\ UNCHANGED <<storeVars, signupVars, openSlots>>

\* The insert; a store error is thrown to the caller.
AssignInsert ==
  /\ apc = "insert"
  /\ IF \/ UniqueViolation(assignments, aargs.week, aargs.day, aargs.route, aargs.vol)
        \/ ForeignKeyViolation(aargs.week)
     THEN /\ AdminReturn(AdminError(ErrStore, 0))
          /\ UNCHANGED <<assignments, nextId>>
     ELSE /\ assignments' = assignments \cup
               {AssignmentRow(nextId + 1, aargs.week, aargs.day, aargs.route,
                              Some(aargs.vol))}
          /\ nextId' = nextId + 1
          /\ AdminReturn(AdminOk)
  /\ UNCHANGED <<weeks, requirements, signupVars, openSlots>>

\* removeVolunteerFromRoute: DELETE ... WHERE week_id, day_of_week, route_id
\* and volunteer_id equal the parameters; true unless the store reports an
\* error.
NoRemoveResult == "none"
MatchesRemove(a, w, d, r, v) ==
  /\ a.week_id = w /\ a.day_of_week = d /\ a.route_id = r
  /\ a.volunteer_id = Some(v)

\* A delete that leaves the volunteer out of its filter.
DeleteWholeSlot(asgs, w, d, r, v) ==
  {a \in asgs : ~(a.week_id = w /\ a.day_of_week = d /\ a.route_id = r)}

DeleteWhere(asgs, w, d, r, v) == {a \in asgs : ~MatchesRemove(a, w, d, r, v)}

RemoveVolunteerFromRoute(w, d, r, v) ==
  /\ assignments' = DeleteWhere(assignments, w, d, r, v)
  /\ cancellations' = OnDeleteSetNull(cancellations, assignments')
  /\ rresult' = "true"
  /\ UNCHANGED <<weeks, requirements, nextId, signupVars, adminVars, openSlots>>

\* publishWeek: UPDATE weeks SET published = true WHERE id = weekId.
PublishWeek(w) ==
  /\ weeks' = [x \in DOMAIN weeks |->
                 IF x = w THEN [weeks[x] EXCEPT !.published = TRUE] ELSE weeks[x]]
  /\ UNCHANGED <<requirements, assignments, nextId, signupVars, adminVars, openSlots>>

\* setRouteRequirement: 1..10 validated, then an upsert on (week, day, route).
MaxVolunteersLimit == 10
MayAddRequirement(w, d, r) ==
  \/ \E q \in requirements : /\ q.week_id = w /\ q.day_of_week = d /\ q.route_id = r
  \/ Cardinality(requirements) < MaxReqRows

SetRouteRequirement(w, d, r, m) ==
  /\ MayAddRequirement(w, d, r)
  /\ IF m < 1 \/ m > MaxVolunteersLimit \/ ForeignKeyViolation(w)
     THEN UNCHANGED requirements
     ELSE requirements' =
            {q \in requirements :
               ~(/\ q.week_id = w /\ q.day_of_week = d /\ q.route_id = r)}
            \cup {RequirementRow(w, d, r, m)}
  /\ UNCHANGED <<weeks, assignments, nextId, signupVars, adminVars, openSlots>>

AdminWeeks == 1..NAdminWeeks
\* What a step of these operations leaves alone.
AdminFrame == UNCHANGED clientVars /\ Observe

AdminStep ==
  \/ \E w \in AdminWeeks, d \in InputDays, r \in Routes, v \in InputVolunteers :
       AssignCheckDay(w, d, r, v) /\ AdminFrame
  \/ AssignCheckDuplicate /\ AdminFrame
  \/ AssignInsert /\ AdminFrame
  \/ \E w \in AdminWeeks : PublishWeek(w) /\ AdminFrame
  \/ \E w \in AdminWeeks, d \in InputDays, r \in Routes, m \in 0..MaxCap :
       SetRouteRequirement(w, d, r, m) /\ AdminFrame


(***************************************************************************)
(* getOpenSlots (lib/supabase/volunteer.ts), evaluated on one state of the *)
(* store: the four queries, the three maps and the nested loops.           *)
(***************************************************************************)
week_start_date(w) == 7 * w

RECURSIVE OrderByStartDate(_)
\* .order("week_start_date", { ascending: true })
OrderByStartDate(S) ==
  IF S = {} THEN <<>>
  ELSE LET first == CHOOSE w \in S :
                      \A x \in S : week_start_date(w) <= week_start_date(x)
       IN  <<first>> \o OrderByStartDate(S \ {first})

\* `${week_id}-${day_of_week}-${route_id}`
SlotKey(w, d, r) == <<w, d, r>>

\* Map.get(key): undefined when the key is not set.
MapGet(map, key) == IF key \in DOMAIN map THEN Some(map[key]) ELSE NULL
\* x || dflt: undefined and 0 are falsy.
OrDefault(x, dflt) == IF IsNull(x) \/ Val(x) = 0 THEN dflt ELSE Val(x)

\* A slot at its maximum still counted as having space.
HasSpaceAtMax(currentCount, maxVolunteers) == currentCount <= maxVolunteers

HasSpace(currentCount, maxVolunteers) == currentCount < maxVolunteers

NoListing == [vol |-> 0, slots |-> <<>>]

\* The queries: published weeks in date order, the requirement rows of those
\* weeks, the assignment rows of those weeks that have a volunteer.
\* The published weeks with the latest start date first.
LatestWeeksFirst(wks) ==
  LET asc == OrderByStartDate({w \in DOMAIN wks : wks[w].published = TRUE})
  IN  [i \in 1..Len(asc) |-> asc[Len(asc) + 1 - i]]
QueryPublishedWeeks(wks) ==
  OrderByStartDate({w \in DOMAIN wks : wks[w].published = TRUE})
WeekIdsOf(publishedWeeks) == {publishedWeeks[i] : i \in 1..Len(publishedWeeks)}
QueryRequirements(reqs, weekIds) == {q \in reqs : q.week_id \in weekIds}
QueryAssignments(asgs, weekIds) ==
  {a \in asgs : a.week_id \in weekIds /\ ~IsNull(a.volunteer_id)}

\* The maps and the loops over what the queries returned.
BuildOpenSlots(publishedWeeks, reqRows, asgRows, volunteerId) ==
  LET requirementMap ==
        [k \in {SlotKey(q.week_id, q.day_of_week, q.route_id) : q \in reqRows} |->
           (CHOOSE q \in reqRows :
              SlotKey(q.week_id, q.day_of_week, q.route_id) = k).max_volunteers]
      assignmentCounts ==
        [k \in {SlotKey(a.week_id, a.day_of_week, a.route_id) : a \in asgRows} |->
           Cardinality({a \in asgRows :
                          SlotKey(a.week_id, a.day_of_week, a.route_id) = k})]
      volunteerSlots ==
        {SlotKey(a.week_id, a.day_of_week, a.route_id) :
           a \in {b \in asgRows : b.volunteer_id = Some(volunteerId)}}
      perWeek == Len(days) * NRoutes
      \* the i-th pass of the loops over weeks, days and routes
      Visit(i) ==
        LET week == publishedWeeks[((i - 1) \div perWeek) + 1]
            day == days[(((i - 1) % perWeek) \div NRoutes) + 1]
            route == ((i - 1) % NRoutes) + 1
            key == SlotKey(week, day, route)
        IN  [weekId |-> week, dayOfWeek |-> day, routeId |-> route,
             routeNumber |-> route_number(route),
             currentVolunteers |-> OrDefault(MapGet(assignmentCounts, key), 0),
             maxVolunteers |-> OrDefault(MapGet(requirementMap, key), 1),
             isVolunteerAssigned |-> key \in volunteerSlots]
      visits == [i \in 1..(Len(publishedWeeks) * perWeek) |-> Visit(i)]
      Pushed(s) == HasSpace(s.currentVolunteers, s.maxVolunteers)
                   /\ ~s.isVolunteerAssigned
      kept == SelectSeq(visits, Pushed)
  IN  [i \in 1..Len(kept) |->
         [weekId |-> kept[i].weekId, dayOfWeek |-> kept[i].dayOfWeek,
          routeId |-> kept[i].routeId, routeNumber |-> kept[i].routeNumber,
          currentVolunteers |-> kept[i].currentVolunteers,
          maxVolunteers |-> kept[i].maxVolunteers]]

OpenSlotsOn(wks, reqs, asgs, volunteerId) ==
  LET publishedWeeks == QueryPublishedWeeks(wks)
      weekIds == WeekIdsOf(publishedWeeks)
  IN  BuildOpenSlots(publishedWeeks, QueryRequirements(reqs, weekIds),
                     QueryAssignments(asgs, weekIds), volunteerId)

GetOpenSlots(volunteerId) == OpenSlotsOn(weeks, requirements, assignments, volunteerId)

GetOpenSlotsCall(v) ==
  /\ openSlots' = [vol |-> v, slots |-> GetOpenSlots(v)]
  /\ UNCHANGED <<storeVars, signupVars, adminVars, clientVars>>

(***************************************************************************)
(* The admin page (components/AdminContent.tsx): its state holds the       *)
(* assignments and requirements loadWeekData fetched last;                 *)
(* handleAssignVolunteer decides on that state and then calls              *)
(* assignVolunteer and loadWeekData.                                       *)
(***************************************************************************)
CurrentWeek == 1

getAssignments(asgs, w) == {a \in asgs : a.week_id = w}
getRouteRequirements(reqs, w) == {q \in reqs : q.week_id = w}

NoPageResult == [ok |-> FALSE, error |-> "", count |-> 0, max |-> 0]
PageOk == [ok |-> TRUE, error |-> "", count |-> 0, max |-> 0]
PageError(msg, count, max) == [ok |-> FALSE, error |-> msg, count |-> count, max |-> max]
ErrAtCapacity == "This route is already at capacity"
NoLoad == [pending |-> {}, assignments |-> {}, routeRequirements |-> {}]

\* The count and the max the handler computes from the page's state.
PageCount(d, r) ==
  Cardinality({a \in page.assignments :
                 /\ a.day_of_week = d /\ a.route_id = r /\ ~IsNull(a.volunteer_id)})
PageMax(d, r) ==
  LET found == {q \in page.routeRequirements : q.day_of_week = d /\ q.route_id = r}
  IN  OrDefault(IF found = {} THEN NULL
                ELSE Some((CHOOSE q \in found : TRUE).max_volunteers), 1)

\* The click: the capacity check on the page's state, then the first query
\* of assignVolunteer.
HandleAssignVolunteer(d, r, v) ==
  /\ hpc = "idle"
  /\ hargs' = [week |-> CurrentWeek, day |-> d, route |-> r, vol |-> v]
  /\ fullAtRequest' = (CountAssigned(assignments, CurrentWeek, d, r)
                         >= getRouteRequirement(requirements, CurrentWeek, d, r))
  /\ IF PageCount(d, r) >= PageMax(d, r)
     THEN /\ hresult' = PageError(ErrAtCapacity, PageCount(d, r), PageMax(d, r))
          /\ UNCHANGED <<hpc, storeVars, signupVars, adminVars, openSlots>>
     ELSE /\ hpc' = "assign"
          /\ hresult' = NoPageResult
          /\ AssignCheckDay(CurrentWeek, d, r, v)
  /\ UNCHANGED <<page, load, listVars, removeVars, prefVars, cancelVars, auditVars, weekVars, copyVars>>

\* assignVolunteer has returned or thrown: the error is shown, or
\* loadWeekData starts its queries.
HandleAssignReturned ==
  /\ hpc = "assign"
  /\ apc = "idle"
  /\ IF aresult.ok
     THEN /\ hpc' = "reload"
          /\ load' = [NoLoad EXCEPT !.pending = {"assignments", "requirements"}]
          /\ UNCHANGED hresult
     ELSE /\ hpc' = "idle"
          /\ hresult' = PageError(aresult.error, 0, 0)
          /\ UNCHANGED load
  /\ UNCHANGED <<hargs, page, fullAtRequest, listVars, storeVars, signupVars,
                 adminVars, openSlots, removeVars, prefVars, cancelVars, auditVars, weekVars, copyVars>>

\* One of the queries of loadWeekData's Promise.all; the page's state is set
\* when the last one has returned.
LoadQuery(q) ==
  LET got == IF q = "assignments"
             THEN [load EXCEPT !.pending = @ \ {q},
                               !.assignments = getAssignments(assignments, CurrentWeek)]
             ELSE [load EXCEPT !.pending = @ \ {q},
                               !.routeRequirements =
                                 getRouteRequirements(requirements, CurrentWeek)]
  IN  /\ hpc = "reload"
      /\ q \in load.pending
      /\ IF got.pending = {}
         THEN /\ page' = [assignments |-> got.assignments,
                          routeRequirements |-> got.routeRequirements]
              /\ load' = NoLoad
              /\ hpc' = "idle"
              /\ hresult' = PageOk
         ELSE /\ load' = got
              /\ UNCHANGED <<page, hpc, hresult>>
      /\ UNCHANGED <<hargs, fullAtRequest, listVars, storeVars, signupVars, adminVars,
                     openSlots, removeVars, prefVars, cancelVars, auditVars, weekVars, copyVars>>

(***************************************************************************)
(* getOpenSlots query by query: each awaited query is a request of its own *)
(* to the store, so other transactions may commit between two of them.     *)
(* The maps and loops after the last query run in the client without       *)
(* reading the store again.                                                *)
(***************************************************************************)
ListReturn(v, slots) ==
  /\ openSlots' = [vol |-> v, slots |-> slots]
  /\ lpc' = "idle"
  /\ lvol' = 0
  /\ lweeks' = <<>>
  /\ lreqs' = {}

\* The call and its first query; no published week returns [] at once.
ListWeeks(v) ==
  LET publishedWeeks == QueryPublishedWeeks(weeks)
  IN  /\ lpc = "idle"
      /\ IF Len(publishedWeeks) = 0
         THEN ListReturn(v, <<>>)
         ELSE /\ lpc' = "routes"
              /\ lvol' = v
              /\ lweeks' = publishedWeeks
              /\ UNCHANGED <<lreqs, openSlots>>
      /\ UNCHANGED <<storeVars, signupVars, adminVars, pageVars, removeVars, prefVars, cancelVars, auditVars, weekVars, copyVars>>

\* The routes are fixed data; the query returns all of them.
ListRoutes ==
  /\ lpc = "routes"
  /\ lpc' = IF Routes = {} THEN "idle" ELSE "requirements"
  /\ UNCHANGED <<lvol, lweeks, lreqs, openSlots, storeVars, signupVars, adminVars,
                 pageVars, removeVars, prefVars, cancelVars, auditVars, weekVars, copyVars>>

ListRequirements ==
  /\ lpc = "requirements"
  /\ lreqs' = QueryRequirements(requirements, WeekIdsOf(lweeks))
  /\ lpc' = "assignments"
  /\ UNCHANGED <<lvol, lweeks, openSlots, storeVars, signupVars, adminVars, pageVars, removeVars, prefVars, cancelVars, auditVars, weekVars, copyVars>>

\* The last query, and the list built from the three results.
ListAssignments ==
  /\ lpc = "assignments"
  /\ ListReturn(lvol, BuildOpenSlots(lweeks, lreqs,
                                     QueryAssignments(assignments, WeekIdsOf(lweeks)),
                                     lvol))
  /\ UNCHANGED <<storeVars, signupVars, adminVars, pageVars, removeVars, prefVars, cancelVars, auditVars, weekVars, copyVars>>

(***************************************************************************)
(* updateVolunteerPreferences.  A Date is a day number and a time of day;  *)
(* day 0 is a Monday, so that week w starts on day week_start_date(w).     *)
(* Each awaited query is a request of its own to the store.                *)
(***************************************************************************)
Date(day, time) == [day |-> day, time |-> time]
\* Date.prototype.getDay: 0 is Sunday, 1 is Monday, ..., 6 is Saturday.
getDay(date) == (date.day + 1) % 7

getWeekRange(date) ==
  LET dayOfWeek == getDay(date)
      daysToMonday == IF dayOfWeek = 0 THEN -6 ELSE 1 - dayOfWeek
      monday == date.day + daysToMonday
  IN  [start |-> Date(monday, "00:00:00.000"),
       end |-> Date(monday + 4, "23:59:59.999")]

\* The local calendar date of a Date, as the store compares it with a date
\* column.
formatDateForDB(date) == date.day

getCurrentWeek(now) == getWeekRange(now)

NoPrefArgs == [vol |-> 0, days |-> {}]
NoPrefResult == [updated |-> FALSE, removedAssignments |-> 0, affectedWeeks |-> 0]
PrefResult(removed, affected) ==
  [updated |-> TRUE, removedAssignments |-> removed, affectedWeeks |-> affected]

PrefReturn(res) ==
  /\ upc' = "idle"
  /\ uresult' = res
  /\ uargs' = NoPrefArgs
  /\ ufuture' = {}
  /\ uremove' = {}

\* Step 1: UPDATE profiles SET availability_days = ... WHERE id = volunteerId.
UpdateProfile(volunteerId, newAvailabilityDays) ==
  /\ upc = "idle"
  /\ availability' = [v \in DOMAIN availability |->
                        IF v = volunteerId THEN newAvailabilityDays
                        ELSE availability[v]]
  /\ upc' = "weeks"
  /\ uargs' = [vol |-> volunteerId, days |-> newAvailabilityDays]
  /\ uresult' = NoPrefResult
  /\ UNCHANGED <<utoday, ufuture, uremove>>
  /\ UNCHANGED <<storeVars, signupVars, adminVars, openSlots, listVars, pageVars,
                 removeVars, cancelVars, auditVars, weekVars, copyVars>>

\* A filter that takes the current week with the later ones.
StartsInOrAfterCurrentWeek(w, currentWeekEndDate) ==
  week_start_date(w) >= currentWeekEndDate - 4

\* .gt("week_start_date", currentWeekEndDate)
StartsAfter(w, currentWeekEndDate) == week_start_date(w) > currentWeekEndDate

\* Steps 2 and 3: the current week from the clock, and the weeks that start
\* after its end; without such a week the call returns.
QueryFutureWeeks(now) ==
  LET currentWeek == getCurrentWeek(now)
      currentWeekEndDate == formatDateForDB(currentWeek.end)
      futureWeeks == OrderByStartDate({w \in DOMAIN weeks :
                                         StartsAfter(w, currentWeekEndDate)})
  IN  /\ upc = "weeks"
      /\ utoday' = now.day
      /\ IF Len(futureWeeks) = 0
         THEN PrefReturn(PrefResult(0, 0))
         ELSE /\ upc' = "assignments"
              /\ ufuture' = WeekIdsOf(futureWeeks)
              /\ UNCHANGED <<uargs, uremove, uresult>>
      /\ UNCHANGED <<availability, storeVars, signupVars, adminVars, openSlots,
                     listVars, pageVars, removeVars, cancelVars, auditVars, weekVars, copyVars>>

\* Step 4: the volunteer's rows in those weeks, and the filter on the
\* weekday; with nothing to remove the call returns.
QueryFutureAssignments ==
  LET allFutureAssignments ==
        {a \in assignments : /\ a.volunteer_id = Some(uargs.vol)
                             /\ a.week_id \in ufuture}
      assignmentsToRemove ==
        {[id |-> a.id, week_id |-> a.week_id, day_of_week |-> a.day_of_week] :
           a \in {x \in allFutureAssignments : x.day_of_week \notin uargs.days}}
  IN  /\ upc = "assignments"
      /\ IF assignmentsToRemove = {}
         THEN PrefReturn(PrefResult(0, 0))
         ELSE /\ upc' = "delete"
              /\ uremove' = assignmentsToRemove
              /\ UNCHANGED <<uargs, ufuture, uresult>>
      /\ UNCHANGED <<utoday, availability, storeVars, signupVars, adminVars,
                     openSlots, listVars, pageVars, removeVars, cancelVars, auditVars, weekVars, copyVars>>

\* Step 5: DELETE FROM assignments WHERE id IN (...), and the counts taken
\* from the rows step 4 fetched.
DeleteStaleAssignments ==
  LET assignmentIdsToRemove == {a.id : a \in uremove}
      affectedWeekIds == {a.week_id : a \in uremove}
  IN  /\ upc = "delete"
      /\ assignments' = {a \in assignments : a.id \notin assignmentIdsToRemove}
      /\ cancellations' = OnDeleteSetNull(cancellations, assignments')
      /\ PrefReturn(PrefResult(Cardinality(uremove), Cardinality(affectedWeekIds)))
      /\ UNCHANGED <<utoday, availability, weeks, requirements, nextId, signupVars,
                     adminVars, openSlots, listVars, pageVars, removeVars, cancelVars,
                     weekVars, copyVars>>

\* The days the clock is read on: the Monday, Friday, Saturday and Sunday
\* of the week before the first stored week and of every stored week.
Today == {7 * k + o : k \in 0..NWeeks, o \in {0, 4, 5, 6}}
Now == {Date(day, "12:00:00.000") : day \in Today}

PreferencesStep ==
  \/ \E v \in InputVolunteers, newDays \in SUBSET InputDays :
       UpdateProfile(v, newDays) /\ Observe
  \/ \E now \in Now : QueryFutureWeeks(now) /\ Observe
  \/ QueryFutureAssignments /\ Observe
  \/ DeleteStaleAssignments /\ Observe

(***************************************************************************)
(* cancelRoute: fetch the assignment, insert the cancellation row, delete  *)
(* the assignment; three requests to the store, each of which may fail.    *)
(* The caller is signed in as volunteerId, which the row level policies    *)
(* on both tables require.                                                 *)
(***************************************************************************)
NoCancelArgs == [id |-> 0, vol |-> 0, reason |-> NULL, assignment |-> NULL]
NoCancelResult == [ok |-> FALSE, error |-> ""]
CancelOk == [ok |-> TRUE, error |-> ""]
CancelError(msg) == [ok |-> FALSE, error |-> msg]
\* .single() on a result that is not exactly one row.
ErrNoRows == "JSON object requested, multiple (or no) rows returned"
ErrNotOwner == "You can only cancel your own assignments"

CancelThrow(p, msg) ==
  /\ cpc' = [cpc EXCEPT ![p] = "idle"]
  /\ cresult' = [cresult EXCEPT ![p] = CancelError(msg)]
  /\ cargs' = [cargs EXCEPT ![p] = NoCancelArgs]

\* An ownership check that lets every caller pass.
AnyoneOwns(assignment, volunteerId) == FALSE

\* assignment.volunteer_id !== volunteerId
NotOwner(assignment, volunteerId) == assignment.volunteer_id # Some(volunteerId)

\* reason || null
OrNull(reason) == IF reason = "" THEN NULL ELSE Some(reason)

CancelFetch(p, assignmentId, volunteerId, reason) ==
  LET rows == {[week_id |-> a.week_id, day_of_week |-> a.day_of_week,
                route_id |-> a.route_id, volunteer_id |-> a.volunteer_id] :
                 a \in {x \in assignments : x.id = assignmentId}}
  IN  /\ cpc[p] = "idle"
      /\ IF Cardinality(rows) # 1
         THEN CancelThrow(p, ErrNoRows)
         ELSE LET assignment == CHOOSE a \in rows : TRUE
              IN  IF NotOwner(assignment, volunteerId)
                  THEN CancelThrow(p, ErrNotOwner)
                  ELSE /\ cpc' = [cpc EXCEPT ![p] = "log"]
                       /\ cargs' = [cargs EXCEPT ![p] =
                                      [id |-> assignmentId, vol |-> volunteerId,
                                       reason |-> OrNull(reason),
                                       assignment |-> Some(assignment)]]
                       /\ cresult' = [cresult EXCEPT ![p] = NoCancelResult]
      /\ UNCHANGED <<storeVars, cancellations, nextCid, clog, cdeleted>>

\* An error that is logged and not thrown.
Swallowed(error) == FALSE

\* if (logError) { ...; throw logError; }
Thrown(error) == error

\* The insert of the cancellation row.  It fails on a store error and when
\* the assignment is gone (assignment_id REFERENCES assignments(id)).
CancelLog(p, storeError) ==
  LET assignment == Val(cargs[p].assignment)
      row == CancellationRow(nextCid, Some(cargs[p].id), cargs[p].vol,
                             assignment.week_id, assignment.day_of_week,
                             assignment.route_id, cargs[p].reason)
      logError == storeError \/ cargs[p].id \notin {a.id : a \in assignments}
  IN  /\ cpc[p] = "log"
      /\ IF logError
         THEN UNCHANGED <<cancellations, clog, nextCid>>
         ELSE /\ cancellations' = cancellations \cup {row}
              /\ clog' = clog \cup {row}
              /\ nextCid' = nextCid + 1
      /\ IF Thrown(logError)
         THEN CancelThrow(p, ErrStore)
         ELSE /\ cpc' = [cpc EXCEPT ![p] = "delete"]
              /\ UNCHANGED <<cargs, cresult>>
      /\ UNCHANGED <<storeVars, cdeleted>>

\* DELETE FROM assignments WHERE id = assignmentId AND volunteer_id =
\* volunteerId, and the return.
CancelDelete(p, storeError) ==
  LET gone == {a \in assignments : /\ a.id = cargs[p].id
                                   /\ a.volunteer_id = Some(cargs[p].vol)}
  IN  /\ cpc[p] = "delete"
      /\ IF storeError
         THEN /\ CancelThrow(p, ErrStore)
              /\ UNCHANGED <<assignments, cancellations, cdeleted>>
         ELSE /\ assignments' = assignments \ gone
              /\ cancellations' = OnDeleteSetNull(cancellations, assignments')
              /\ cdeleted' = cdeleted \cup gone
              /\ cpc' = [cpc EXCEPT ![p] = "idle"]
              /\ cresult' = [cresult EXCEPT ![p] = CancelOk]
              /\ cargs' = [cargs EXCEPT ![p] = NoCancelArgs]
      /\ UNCHANGED <<weeks, requirements, nextId, nextCid, clog>>

CancelFrame ==
  UNCHANGED <<signupVars, adminVars, openSlots, listVars, pageVars, removeVars,
              prefVars, weekVars, copyVars>> /\ Observe

\* The ids cancelRoute is called with: the stored rows' and one no row has.
InputIds == 1..(MaxStoreRows + 1)
Reasons == {"", "sick"}

CancelStep(p) ==
  \/ \E id \in InputIds, v \in InputVolunteers, reason \in Reasons :
       nextCid <= MaxRecords /\ CancelFetch(p, id, v, reason) /\ CancelFrame
  \/ \E storeError \in BOOLEAN : CancelLog(p, storeError) /\ CancelFrame
  \/ \E storeError \in BOOLEAN : CancelDelete(p, storeError) /\ CancelFrame

(***************************************************************************)
(* The weeks table with its date columns: week_start_date is UNIQUE.       *)
(* getOrCreateWeek is a select, an insert and, on a unique violation, a    *)
(* second select; the page calls it with the range getWeekRange gave.      *)
(***************************************************************************)
WeekRow(id, startDate, endDate, published) ==
  [id |-> id, week_start_date |-> startDate, week_end_date |-> endDate,
   published |-> published]

NoWeekArgs == [startDateStr |-> -1, endDateStr |-> -1]

WeekReturn(p, week) ==
  /\ gpc' = [gpc EXCEPT ![p] = "idle"]
  /\ gresult' = [gresult EXCEPT ![p] = week]
  /\ gargs' = [gargs EXCEPT ![p] = NoWeekArgs]

\* A range that ends on the Saturday.
getWeekRangeToSaturday(date) ==
  [start |-> getWeekRange(date).start,
   end |-> Date(getWeekRange(date).start.day + 5, "23:59:59.999")]

\* loadWeekData: getWeekRange(currentDate), as getOrCreateWeek receives it.
PageWeekRange(date) == getWeekRange(date)

\* .eq("week_start_date", startDateStr)
WeeksStarting(startDateStr) == {w \in weekRows : w.week_start_date = startDateStr}

\* The first select; an existing week is returned as it is.
GetWeekFetch(p, startDate, endDate) ==
  LET startDateStr == formatDateForDB(startDate)
      endDateStr == formatDateForDB(endDate)
      existingWeek == MaybeSingle(WeeksStarting(startDateStr))
  IN  /\ gpc[p] = "idle"
      /\ IF ~IsNull(existingWeek)
         THEN WeekReturn(p, existingWeek)
         ELSE /\ gpc' = [gpc EXCEPT ![p] = "insert"]
              /\ gargs' = [gargs EXCEPT ![p] = [startDateStr |-> startDateStr,
                                               endDateStr |-> endDateStr]]
              /\ gresult' = [gresult EXCEPT ![p] = NULL]
      /\ UNCHANGED <<weekRows, nextWeekId>>

\* A table without the UNIQUE constraint on week_start_date.
NeverConflicts(startDateStr) == FALSE

\* week_start_date DATE UNIQUE: error 23505 on a second row for the date.
StartDateConflict(startDateStr) == WeeksStarting(startDateStr) # {}

\* The insert; on 23505 the call goes on to fetch the other request's row.
GetWeekInsert(p) ==
  LET newWeek == WeekRow(nextWeekId + 1, gargs[p].startDateStr, gargs[p].endDateStr,
                         FALSE)
  IN  /\ gpc[p] = "insert"
      /\ IF StartDateConflict(gargs[p].startDateStr)
         THEN /\ gpc' = [gpc EXCEPT ![p] = "retry"]
              /\ UNCHANGED <<weekRows, nextWeekId, gargs, gresult>>
         ELSE /\ weekRows' = weekRows \cup {newWeek}
              /\ nextWeekId' = nextWeekId + 1
              /\ WeekReturn(p, Some(newWeek))

\* The select after the conflict; its error is not read.
GetWeekRetry(p) ==
  /\ gpc[p] = "retry"
  /\ WeekReturn(p, MaybeSingle(WeeksStarting(gargs[p].startDateStr)))
  /\ UNCHANGED <<weekRows, nextWeekId>>

\* week_start_date::date + INTERVAL '4 days'
ExpectedFriday(w) == w.week_start_date + 4

\* UPDATE weeks SET week_end_date = ... WHERE week_end_date != ...
FixEndDates(rows) ==
  {IF w.week_end_date # ExpectedFriday(w)
   THEN [w EXCEPT !.week_end_date = ExpectedFriday(w)]
   ELSE w : w \in rows}

FixWeekEndDates ==
  /\ weekRows' = FixEndDates(weekRows)
  /\ UNCHANGED <<nextWeekId, gpc, gargs, gresult>>

WeekFrame ==
  UNCHANGED <<storeVars, signupVars, adminVars, openSlots, listVars, pageVars,
              removeVars, prefVars, cancelVars, auditVars, copyVars>> /\ Observe

WeekStep ==
  \/ \E p \in Callers, now \in Now :
       GetWeekFetch(p, PageWeekRange(now).start, PageWeekRange(now).end) /\ WeekFrame
  \/ \E p \in Callers : GetWeekInsert(p) /\ WeekFrame
  \/ \E p \in Callers : GetWeekRetry(p) /\ WeekFrame
  \/ FixWeekEndDates /\ WeekFrame

(***************************************************************************)
(* copyPreviousWeek: two selects on weeks, a select of the previous week's *)
(* rows, a delete of the current week's rows and one bulk insert; five     *)
(* requests to the store.                                                  *)
(***************************************************************************)
NoCopyArgs == [currentStartStr |-> -1, previousWeek |-> 0, currentWeek |-> 0,
               previousAssignments |-> {}]
NoCopyResult == [ok |-> FALSE, error |-> ""]
CopyOk == [ok |-> TRUE, error |-> ""]
ErrPreviousWeek == "Previous week not found"
ErrCurrentWeek == "Current week not found"
ErrNoPreviousAssignments == "No assignments found in previous week"

CopyThrow(msg) ==
  /\ kpc' = "idle"
  /\ kresult' = [ok |-> FALSE, error |-> msg]
  /\ kargs' = NoCopyArgs

\* .from("weeks").select("id").eq("week_start_date", str).single()
WeekStarting(str) == MaybeSingle({w \in DOMAIN weeks : week_start_date(w) = str})

CopyFindPrevious(currentWeekStartDate) ==
  LET currentStartStr == formatDateForDB(currentWeekStartDate)
      previousMonday == Date(currentWeekStartDate.day - 7, currentWeekStartDate.time)
      previousWeek == WeekStarting(formatDateForDB(previousMonday))
  IN  /\ kpc = "idle"
      /\ kbefore' = {a \in assignments : week_start_date(a.week_id) = currentStartStr}
      /\ IF IsNull(previousWeek)
         THEN CopyThrow(ErrPreviousWeek)
         ELSE /\ kpc' = "current"
              /\ kargs' = [NoCopyArgs EXCEPT !.currentStartStr = currentStartStr,
                                             !.previousWeek = Val(previousWeek)]
              /\ kresult' = NoCopyResult
      /\ UNCHANGED <<storeVars, cancellations>>

CopyFindCurrent ==
  LET currentWeek == WeekStarting(kargs.currentStartStr)
  IN  /\ kpc = "current"
      /\ IF IsNull(currentWeek)
         THEN CopyThrow(ErrCurrentWeek)
         ELSE /\ kpc' = "fetch"
              /\ kargs' = [kargs EXCEPT !.currentWeek = Val(currentWeek)]
              /\ UNCHANGED kresult
      /\ UNCHANGED <<storeVars, cancellations, kbefore>>

\* The previous week's rows; the id stands for the row's place in the
\* array, where two rows may carry the same values.
CopyFetch ==
  LET previousAssignments ==
        {[id |-> a.id, day_of_week |-> a.day_of_week, route_id |-> a.route_id,
          volunteer_id |-> a.volunteer_id] :
           a \in {x \in assignments : x.week_id = kargs.previousWeek}}
  IN  /\ kpc = "fetch"
      /\ IF previousAssignments = {}
         THEN CopyThrow(ErrNoPreviousAssignments)
         ELSE /\ kpc' = "delete"
              /\ kargs' = [kargs EXCEPT !.previousAssignments = previousAssignments]
              /\ UNCHANGED kresult
      /\ UNCHANGED <<storeVars, cancellations, kbefore>>

\* Step 1: DELETE FROM assignments WHERE week_id = currentWeek.id
CopyDelete ==
  /\ kpc = "delete"
  /\ assignments' = {a \in assignments : a.week_id # kargs.currentWeek}
  /\ cancellations' = OnDeleteSetNull(cancellations, assignments')
  /\ kpc' = "insert"
  /\ UNCHANGED <<weeks, requirements, nextId, kargs, kresult, kbefore>>

\* Step 2: one INSERT of all rows, which a unique violation refuses whole.
CopyInsert ==
  LET rows == kargs.previousAssignments
      number == CHOOSE f \in [rows -> (nextId + 1)..(nextId + Cardinality(rows))] :
                  \A a, b \in rows : f[a] = f[b] => a = b
      newAssignments ==
        {AssignmentRow(number[a], kargs.currentWeek, a.day_of_week, a.route_id,
                       a.volunteer_id) : a \in rows}
      insertError ==
        \E a \in rows :
          /\ ~IsNull(a.volunteer_id)
          /\ UniqueViolation(assignments, kargs.currentWeek, a.day_of_week,
                             a.route_id, Val(a.volunteer_id))
  IN  /\ kpc = "insert"
      /\ IF insertError
         THEN /\ CopyThrow(ErrStore)
              /\ UNCHANGED <<assignments, nextId>>
         ELSE /\ assignments' = assignments \cup newAssignments
              /\ nextId' = nextId + Cardinality(rows)
              /\ kpc' = "idle"
              /\ kresult' = CopyOk
              /\ kargs' = NoCopyArgs
      /\ UNCHANGED <<weeks, requirements, cancellations, kbefore>>

CopyFrame ==
  UNCHANGED <<signupVars, adminVars, openSlots, listVars, pageVars, removeVars,
              prefVars, cancelVars, weekVars>> /\ Observe

\* The page calls it with currentWeekStart, a Monday.
CopyStep ==
  \/ \E w \in 1..(NWeeks + 1) :
       /\ nextId <= MaxRows
       /\ CopyFindPrevious(Date(week_start_date(w), "00:00:00.000")) /\ CopyFrame
  \/ CopyFindCurrent /\ CopyFrame
  \/ CopyFetch /\ CopyFrame
  \/ CopyDelete /\ CopyFrame
  \/ CopyInsert /\ CopyFrame

(***************************************************************************)
(* Signups alone, on a store an administrator has prepared: week 1 is      *)
(* published, the last week is not, and the slot (1, Monday, 1) has either *)
(* no requirement row or one with any max between 1 and MaxCap.            *)
(***************************************************************************)
InitProcs ==
  /\ locks = {}
  /\ pc = [p \in Procs |-> "idle"]
  /\ args = [p \in Procs |-> NoArgs]
  /\ v_max_volunteers = [p \in Procs |-> Some(1)]
  /\ v_current_count = [p \in Procs |-> 0]
  /\ heldAtLock = [p \in Procs |-> FALSE]
  /\ result = [p \in Procs |-> NoResult]

InitListing ==
  /\ lpc = "idle"
  /\ lvol = 0
  /\ lweeks = <<>>
  /\ lreqs = {}
  /\ seen = {}

\* The admin page is mounted and has loaded its week.
InitPage ==
  /\ hpc = "idle"
  /\ hargs = NoArgs
  /\ hresult = NoPageResult
  /\ page = [assignments |-> getAssignments(assignments, CurrentWeek),
             routeRequirements |-> getRouteRequirements(requirements, CurrentWeek)]
  /\ load = NoLoad
  /\ fullAtRequest = FALSE

InitPreferences ==
  /\ upc = "idle"
  /\ uargs = NoPrefArgs
  /\ utoday = 0
  /\ ufuture = {}
  /\ uremove = {}
  /\ uresult = NoPrefResult
  /\ availability = [v \in InputVolunteers |-> DaySet]

InitCancel ==
  /\ cancellations = {}
  /\ nextCid = 1
  /\ cpc = [p \in Callers |-> "idle"]
  /\ cargs = [p \in Callers |-> NoCancelArgs]
  /\ cresult = [p \in Callers |-> NoCancelResult]
  /\ clog = {}
  /\ cdeleted = {}

InitWeekCalls ==
  /\ gpc = [p \in Callers |-> "idle"]
  /\ gargs = [p \in Callers |-> NoWeekArgs]
  /\ gresult = [p \in Callers |-> NULL]

InitCopy ==
  /\ kpc = "idle"
  /\ kargs = NoCopyArgs
  /\ kresult = NoCopyResult
  /\ kbefore = {}

InitCalls ==
  /\ InitListing
  /\ InitPage
  /\ rresult = NoRemoveResult
  /\ InitPreferences
  /\ InitCancel
  /\ InitWeekCalls
  /\ InitCopy

InitClients ==
  /\ InitCalls
  /\ weekRows = {}
  /\ nextWeekId = 0

InitAdmin ==
  /\ apc = "idle"
  /\ aargs = NoArgs
  /\ aresult = NoAdminResult
  /\ openSlots = NoListing
  /\ InitClients

InitSignup ==
  /\ weeks = [w \in WeekIds |-> [published |-> (w < NWeeks)]]
  /\ \E m \in 0..MaxCap :
       requirements = IF m = 0 THEN {} ELSE {RequirementRow(1, days[1], 1, m)}
  /\ assignments = {}
  /\ nextId = 0
  /\ InitProcs
  /\ InitAdmin

NextSignup == \E p \in Callers : SignupStep(p)

SpecSignup == InitSignup /\ [][NextSignup]_vars

\* The statements of a call in progress: the server runs a transaction it
\* has started to its end.
Proceed(p) ==
  \/ CheckExistingDay(p) /\ SignupFrame
  \/ SelectRequirement(p) /\ SignupFrame
  \/ CountAndCheckCapacity(p) /\ SignupFrame
  \/ CheckDuplicate(p) /\ SignupFrame
  \/ InsertAssignment(p) /\ SignupFrame

\* Fair scheduling: a running transaction goes on, and the waiters of an
\* advisory lock are queued, so a waiter whose key is released again and
\* again is granted it.
SignupFairness ==
  \A p \in Callers : /\ WF_vars(Proceed(p))
                     /\ SF_vars(AcquireLock(p) /\ SignupFrame)

\* Calls for the slots of one day.
MondayStep(p) ==
  \/ \E w \in InputWeeks, r \in Routes, v \in InputVolunteers :
       IdBudget /\ CheckPublished(p, w, days[1], r, v) /\ SignupFrame
  \/ Proceed(p)
  \/ AcquireLock(p) /\ SignupFrame

NextSignupFair == \E p \in Callers : MondayStep(p)

SpecSignupFair == InitSignup /\ [][NextSignupFair]_vars /\ SignupFairness

(***************************************************************************)
(* The whole system: a fresh store whose weeks are not published yet, the  *)
(* administrator's operations and the volunteers' signups.                 *)
(***************************************************************************)
Init ==
  /\ weeks = [w \in WeekIds |-> [published |-> FALSE]]
  /\ requirements = {}
  /\ assignments = {}
  /\ nextId = 0
  /\ InitProcs
  /\ InitAdmin

Next ==
  \/ \E p \in 1..NSignups : SignupStep(p)
  \/ AdminStep

Spec == Init /\ [][Next]_vars

(***************************************************************************)
(* A burst: on the prepared store, twice as many callers as the slot       *)
(* (1, Monday, 1) resolves to, each a volunteer of their own, each calling *)
(* sign_up_for_route_safe for that slot once.                              *)
(***************************************************************************)
BurstCallers == 1..(2 * getRouteRequirement(requirements, 1, days[1], 1))

BurstStep(p) ==
  \/ pc[p] = "idle" /\ CheckPublished(p, 1, days[1], 1, p) /\ SignupFrame
  \/ CheckExistingDay(p) /\ SignupFrame
  \/ AcquireLock(p) /\ SignupFrame
  \/ SelectRequirement(p) /\ SignupFrame
  \/ CountAndCheckCapacity(p) /\ SignupFrame
  \/ CheckDuplicate(p) /\ SignupFrame
  \/ InsertAssignment(p) /\ SignupFrame

NextBurst == \E p \in BurstCallers : BurstStep(p)

SpecBurst == InitSignup /\ [][NextBurst]_vars

(***************************************************************************)
(* The open-slot listing on a store at rest: any store the constraints of  *)
(* the schema allow, rows of deleted volunteers (volunteer_id NULL)        *)
(* included, and calls of getOpenSlots on it.                              *)
(***************************************************************************)
NoKey == [week |-> 0, day |-> "", route |-> 0, vol |-> NULL]
StoredKeys ==
  [week : WeekIds, day : InputDays, route : Routes,
   vol : {NULL} \cup {Some(v) : v \in InputVolunteers}]

InitOpenSlots ==
  /\ weeks \in [WeekIds -> [published : BOOLEAN]]
  /\ \E w \in WeekIds, d \in InputDays, r \in Routes, m \in 0..MaxCap :
       requirements = IF m = 0 THEN {} ELSE {RequirementRow(w, d, r, m)}
  /\ \E f \in [1..MaxStoreRows -> StoredKeys \cup {NoKey}] :
       /\ \A i, j \in 1..MaxStoreRows :
            (i # j /\ f[i] = f[j]) => (f[i] = NoKey \/ IsNull(f[i].vol))
       /\ assignments =
            {AssignmentRow(i, f[i].week, f[i].day, f[i].route, f[i].vol) :
               i \in {j \in 1..MaxStoreRows : f[j] # NoKey}}
  /\ nextId = MaxStoreRows
  /\ InitProcs
  /\ InitAdmin

NextOpenSlots == \E v \in InputVolunteers : GetOpenSlotsCall(v) /\ Observe

SpecOpenSlots == InitOpenSlots /\ [][NextOpenSlots]_vars

(***************************************************************************)
(* A listing against writers: on the prepared store, one getOpenSlots call *)
(* runs its queries while volunteers sign up for the slot (1, Monday, 1),  *)
(* once each, and the administrator changes that slot's requirement.  At   *)
(* most MaxSeen store states exist during the call.                        *)
(***************************************************************************)
WriterBudget == Cardinality(seen) < MaxSeen

NextListing ==
  \/ \E v \in InputVolunteers : openSlots = NoListing /\ ListWeeks(v) /\ Observe
  \/ ListRoutes /\ Observe
  \/ ListRequirements /\ Observe
  \/ ListAssignments /\ Observe
  \/ \E p \in Callers : WriterBudget /\ BurstStep(p)
  \/ \E m \in 1..MaxCap :
       WriterBudget /\ SetRouteRequirement(1, days[1], 1, m) /\ AdminFrame

SpecListing == InitSignup /\ [][NextListing]_vars

(***************************************************************************)
(* The admin page against signups: on the prepared store the administrator *)
(* assigns volunteers to the slot (1, Monday, 1) from the page while       *)
(* volunteers sign up for that slot, once each.                            *)
(***************************************************************************)
NextAdminPage ==
  \/ \E v \in InputVolunteers :
       IdBudget /\ HandleAssignVolunteer(days[1], 1, v) /\ Observe
  \/ hpc = "assign" /\ AssignCheckDuplicate /\ AdminFrame
  \/ hpc = "assign" /\ AssignInsert /\ AdminFrame
  \/ HandleAssignReturned /\ Observe
  \/ \E q \in {"assignments", "requirements"} : LoadQuery(q) /\ Observe
  \/ \E p \in Callers : BurstStep(p)

SpecAdminPage == InitSignup /\ [][NextAdminPage]_vars

(***************************************************************************)
(* Removals on a store at rest: any store of MaxStoreRows assignment rows  *)
(* the schema allows, without requirement rows, which the delete does not  *)
(* read, and calls of removeVolunteerFromRoute on it.                      *)
(***************************************************************************)
InitRemove ==
  /\ InitOpenSlots
  /\ requirements = {}
  /\ Cardinality(assignments) = MaxStoreRows

NextRemove ==
  \E w \in WeekIds, d \in InputDays, r \in Routes, v \in InputVolunteers :
    RemoveVolunteerFromRoute(w, d, r, v)
    /\ UNCHANGED <<listVars, pageVars, prefVars, cancelVars, weekVars, copyVars>>
       /\ Observe

SpecRemove == InitRemove /\ [][NextRemove]_vars

(***************************************************************************)
(* updateVolunteerPreferences alone, on any store of MaxStoreRows          *)
(* assignment rows, with the clock read on any day of Today.  The call     *)
(* reads neither weeks.published nor route_id: the weeks are published and *)
(* the rows are on route 1.                                                *)
(***************************************************************************)
InitPreferencesStore ==
  /\ InitRemove
  /\ \A w \in DOMAIN weeks : weeks[w].published
  /\ \A a \in assignments : a.route_id = 1

SpecPreferences == InitPreferencesStore /\ [][PreferencesStep]_vars

\* The same calls while the administrator removes volunteers from routes.
NextPreferencesRace ==
  \/ PreferencesStep
  \/ \E w \in WeekIds, d \in InputDays, v \in InputVolunteers :
       /\ RemoveVolunteerFromRoute(w, d, 1, v)
       /\ UNCHANGED <<listVars, pageVars, prefVars, cancelVars, weekVars, copyVars>>
       /\ Observe

SpecPreferencesRace == InitPreferencesStore /\ [][NextPreferencesRace]_vars

(***************************************************************************)
(* cancelRoute from two sessions at once, while the administrator removes  *)
(* volunteers from routes, on any store of MaxStoreRows rows on route 1.   *)
(***************************************************************************)
NextCancel ==
  \/ \E p \in Callers : CancelStep(p)
  \/ \E w \in WeekIds, d \in InputDays, v \in InputVolunteers :
       /\ RemoveVolunteerFromRoute(w, d, 1, v)
       /\ UNCHANGED <<listVars, pageVars, prefVars, cancelVars, weekVars, copyVars>>
       /\ Observe

SpecCancel == InitPreferencesStore /\ [][NextCancel]_vars

(***************************************************************************)
(* getOrCreateWeek from two sessions and the corrective update, on any     *)
(* weeks table of up to MaxWeekRows rows: a row starts on the Monday of    *)
(* week 0 or 1 and ends three to five days later, as rows written before   *)
(* the dates were formatted in local time may.                             *)
(***************************************************************************)
StoredWeekRows ==
  {WeekRow(i, 7 * (i - 1), 7 * (i - 1) + e, pub) :
     i \in 1..MaxWeekRows, e \in {3, 4, 5}, pub \in BOOLEAN}

InitWeeks ==
  /\ \E S \in SUBSET StoredWeekRows :
       /\ \A a, b \in S : a.id = b.id => a = b
       /\ weekRows = S
  /\ nextWeekId = MaxWeekRows
  /\ weeks = [w \in WeekIds |-> [published |-> FALSE]]
  /\ requirements = {}
  /\ assignments = {}
  /\ nextId = 0
  /\ InitProcs
  /\ apc = "idle"
  /\ aargs = NoArgs
  /\ aresult = NoAdminResult
  /\ openSlots = NoListing
  /\ InitCalls

SpecWeeks == InitWeeks /\ [][WeekStep]_vars

(***************************************************************************)
(* copyPreviousWeek while a volunteer signs up for Monday's route 1 of the *)
(* last week, on any store of MaxStoreRows rows on route 1 whose weeks are *)
(* published.                                                              *)
(***************************************************************************)
NextCopyWeek ==
  \/ CopyStep
  \/ \E v \in InputVolunteers :
       IdBudget /\ CheckPublished(1, NWeeks, days[1], 1, v) /\ SignupFrame
  \/ CheckExistingDay(1) /\ SignupFrame
  \/ AcquireLock(1) /\ SignupFrame
  \/ SelectRequirement(1) /\ SignupFrame
  \/ CountAndCheckCapacity(1) /\ SignupFrame
  \/ CheckDuplicate(1) /\ SignupFrame
  \/ InsertAssignment(1) /\ SignupFrame

SpecCopyWeek == InitPreferencesStore /\ [][NextCopyWeek]_vars

(***************************************************************************)
(* Self-service of the volunteers while they change their availability:    *)
(* signups for the slots of one day, listings and                          *)
(* updateVolunteerPreferences calls, one call at a time.                   *)
(***************************************************************************)
\* updateVolunteerPreferences called on the Monday of the week before the
\* first stored week, with no day or every day.
SelfServicePreferences ==
  \/ \E v \in InputVolunteers, newDays \in {{}, InputDays} :
       UpdateProfile(v, newDays) /\ Observe
  \/ QueryFutureWeeks(Date(0, "12:00:00.000")) /\ Observe
  \/ QueryFutureAssignments /\ Observe
  \/ DeleteStaleAssignments /\ Observe

NextSelfService ==
  \/ upc = "idle" /\ MondayStep(1)
  \/ /\ upc = "idle" /\ pc[1] \in {"idle", "done"}
     /\ \E v \in InputVolunteers : GetOpenSlotsCall(v) /\ Observe
  \/ pc[1] \in {"idle", "done"} /\ SelfServicePreferences

SpecSelfService == InitSignup /\ [][NextSelfService]_vars

(***************************************************************************)
(* Signup calls one at a time with no other writer, on any store whose     *)
(* rows are in week 1 and whose last week is published.                    *)
(***************************************************************************)
InitSequential ==
  /\ InitOpenSlots
  /\ weeks[NWeeks].published
  /\ \A a \in assignments : a.week_id = 1
  /\ \A q \in requirements : q.week_id = 1 /\ q.day_of_week = days[1]

SpecSequential == InitSequential /\ [][SignupStep(1)]_vars

(***************************************************************************)
(* Properties.                                                             *)
(***************************************************************************)
PostLock == {"selectMax", "count", "checkDuplicate", "insert"}
\* The call of p returns in this step, having passed its first statement.
Completes(p) == pc[p] \notin {"idle", "done"} /\ pc'[p] = "done"
HasRequirementRow(w, d, r) ==
  \E q \in requirements : /\ q.week_id = w /\ q.day_of_week = d /\ q.route_id = r
ErrSlotFull == SlotFull(0, NULL).error

\* C1: for every slot, the number of assignment rows with a non-null
\* volunteer never exceeds the max the slot resolves to (its requirement row's
\* max_volunteers, 1 without a row), whatever the interleaving of signups.
C1_CapacityInvariant ==
  \A w \in WeekIds, d \in InputDays, r \in Routes :
    CountAssigned(assignments, w, d, r) <= getRouteRequirement(requirements, w, d, r)

\* C2: no volunteer holds two assignment rows with the same week and day.
C2_OneRoutePerDay ==
  \A a, b \in assignments :
    (/\ a.week_id = b.week_id /\ a.day_of_week = b.day_of_week
     /\ a.volunteer_id = b.volunteer_id /\ a.volunteer_id # NULL) => a = b

\* C3: a call on a slot without a requirement row ends as it would with a row
\* of max_volunteers = 1: a volunteer without an assignment that day who calls
\* for a slot another volunteer occupies is rejected as full, with the count
\* reported, and nothing is inserted; on a free slot the call is not rejected
\* as full.
C3_DefaultCapacityAsMaxOne ==
  [][\A p \in Procs :
       (/\ Completes(p) /\ pc[p] \in PostLock \ {"selectMax"}
        /\ args[p].week \in DOMAIN weeks
        /\ ~HasRequirementRow(args[p].week, args[p].day, args[p].route)
        /\ ~ExistingOnDay(assignments, args[p].week, args[p].day, args[p].vol))
       => LET n == CountAssigned(assignments, args[p].week, args[p].day,
                                 args[p].route)
          IN  IF n >= 1
              THEN /\ result'[p].error = ErrSlotFull
                   /\ result'[p].current_count = Some(n)
                   /\ assignments' = assignments
              ELSE result'[p].error # ErrSlotFull]_vars

\* C4: when 2*M callers, each a volunteer of their own, have all called
\* for one free published slot of max M, exactly M were accepted and the other
\* M were rejected as full.
C4_BurstExactlyM ==
  (\A p \in BurstCallers : pc[p] = "done")
  => LET M == getRouteRequirement(requirements, 1, days[1], 1)
     IN  /\ Cardinality({p \in BurstCallers : result[p].success}) = M
         /\ Cardinality({p \in BurstCallers : result[p].error = ErrSlotFull}) = M

\* C5: a call for a week that is not published (no row, or published false)
\* returns 'Week is not published' and inserts nothing.
C5_UnpublishedRejected ==
  [][\A p \in Procs :
       (Completes(p) /\ SelectPublished(args[p].week) # Some(TRUE))
       => /\ result'[p] = Rejected(ErrNotPublished)
          /\ assignments' = assignments]_vars

\* C6: at most one call per slot is between its lock acquisition and its
\* return, and the count a call has read stays the slot's count until the call
\* returns.
C6_SlotMutualExclusion ==
  /\ \A p, q \in Procs :
       (/\ p # q /\ pc[p] \in PostLock /\ pc[q] \in PostLock)
       => <<args[p].week, args[p].day, args[p].route>>
            # <<args[q].week, args[q].day, args[q].route>>
  /\ \A p \in Procs :
       pc[p] \in {"checkDuplicate", "insert"}
       => v_current_count[p] =
            CountAssigned(assignments, args[p].week, args[p].day, args[p].route)

\* C6 witness: a call has counted and is about to insert while another call
\* for the same slot waits for the lock.
C6_Witness ==
  \E p, q \in Procs :
    /\ p # q /\ pc[p] = "insert" /\ pc[q] = "lock"
    /\ <<args[p].week, args[p].day, args[p].route>>
         = <<args[q].week, args[q].day, args[q].route>>
    /\ args[p].week \in DOMAIN weeks

\* C7: a call whose volunteer held an assignment of that week and day, on any
\* route, when the lock was granted is rejected and inserts no row.
C7_RecheckAfterLock ==
  [][\A p \in Procs :
       (Completes(p) /\ heldAtLock[p])
       => /\ ~result'[p].success
          /\ assignments' = assignments]_vars

\* The step is one of p's signup call.
Acts(p) == pc'[p] # pc[p] \/ result'[p] # result[p]

\* C8: a step of a signup call that does not return an acceptance leaves the
\* store as it was; the step that returns an acceptance adds exactly one row,
\* the requested (week, day, route, volunteer), and changes nothing else.
C8_StoreChangesOnlyOnAccepted ==
  [][\A p \in Procs :
       Acts(p) =>
         IF pc'[p] = "done" /\ result'[p].success
         THEN /\ \E a \in assignments' \ assignments :
                   /\ assignments' = assignments \cup {a}
                   /\ a.week_id = args[p].week /\ a.day_of_week = args[p].day
                   /\ a.route_id = args[p].route
                   /\ a.volunteer_id = Some(args[p].vol)
              /\ UNCHANGED <<weeks, requirements>>
         ELSE UNCHANGED <<weeks, requirements, assignments>>]_vars

\* C8 witness: a signup has returned an acceptance and its row is the one row
\* of the store, the administrator having assigned nobody.
C8_Witness ==
  \E p \in Procs :
    /\ pc[p] = "done" /\ result[p].success
    /\ apc = "idle" /\ aresult = NoAdminResult
    /\ Cardinality(assignments) = 1 /\ nextId = 1

\* C9: a full rejection reports the slot's count and its resolved max, the
\* count at or above the max; an acceptance reports the count after the insert
\* and the max, the count at or below the max.
C9_ReportedCounts ==
  [][\A p \in Procs :
       Completes(p) =>
         LET w == args[p].week
             d == args[p].day
             r == args[p].route
             res == result'[p]
         IN  /\ res.error = ErrSlotFull =>
                  /\ res.current_count = Some(CountAssigned(assignments, w, d, r))
                  /\ res.max_volunteers = Some(getRouteRequirement(requirements, w, d, r))
                  /\ Val(res.current_count) >= Val(res.max_volunteers)
             /\ res.success =>
                  /\ res.current_count = Some(CountAssigned(assignments', w, d, r))
                  /\ res.max_volunteers = Some(getRouteRequirement(requirements, w, d, r))
                  /\ Val(res.current_count) <= Val(res.max_volunteers)]_vars

\* C10: the list getOpenSlots returned for v on the store names, once each,
\* exactly the (published week, weekday, route) whose count of rows with a
\* volunteer is below the slot's max (its requirement row's, 1 without a row)
\* and that v does not hold; no slot of an unpublished week is listed.
C10_ListOpenSlotsExact ==
  openSlots # NoListing =>
    LET v == openSlots.vol
        listed == {<<openSlots.slots[i].weekId, openSlots.slots[i].dayOfWeek,
                     openSlots.slots[i].routeId>> : i \in 1..Len(openSlots.slots)}
        Max(w, d, r) ==
          LET rows == {q \in requirements :
                         /\ q.week_id = w /\ q.day_of_week = d /\ q.route_id = r}
          IN  IF rows = {} THEN 1 ELSE (CHOOSE q \in rows : TRUE).max_volunteers
        Holds(w, d, r) ==
          \E a \in assignments :
            /\ a.week_id = w /\ a.day_of_week = d /\ a.route_id = r
            /\ a.volunteer_id = Some(v)
    IN  /\ listed = {t \in WeekIds \X DaySet \X Routes :
                       /\ weeks[t[1]].published
                       /\ CountAssigned(assignments, t[1], t[2], t[3])
                            < Max(t[1], t[2], t[3])
                       /\ ~Holds(t[1], t[2], t[3])}
        /\ Len(openSlots.slots) = Cardinality(listed)
        /\ \A t \in listed : weeks[t[1]].published

\* C10 witness: a list was returned for v while v holds a slot that is below
\* its max, another volunteer fills a slot, a published week has a row
\* without a volunteer, and a week is unpublished.
C10_Witness ==
  /\ openSlots # NoListing
  /\ openSlots.slots # <<>>
  /\ \E w \in WeekIds : ~weeks[w].published
  /\ \E a \in assignments :
       /\ a.volunteer_id = Some(openSlots.vol)
       /\ weeks[a.week_id].published
       /\ CountAssigned(assignments, a.week_id, a.day_of_week, a.route_id)
            < getRouteRequirement(requirements, a.week_id, a.day_of_week, a.route_id)
  /\ \E b \in assignments :
       /\ ~IsNull(b.volunteer_id) /\ b.volunteer_id # Some(openSlots.vol)
       /\ weeks[b.week_id].published
       /\ CountAssigned(assignments, b.week_id, b.day_of_week, b.route_id)
            >= getRouteRequirement(requirements, b.week_id, b.day_of_week, b.route_id)

\* The set of entries of a returned list.
Entries(slots) == {slots[i] : i \in 1..Len(slots)}

\* C11: the list a getOpenSlots call returns, with the counts and maxima it
\* reports, is the list of one store state that existed between the call's
\* first query and its return.
C11_ListingIsSnapshot ==
  [][(lpc # "idle" \/ openSlots' # openSlots) /\ lpc' = "idle"
     => \E st \in seen \cup {Store} :
          Entries(openSlots'.slots) =
            Entries(OpenSlotsOn(st.weeks, st.requirements, st.assignments,
                                openSlots'.vol))]_vars

\* C12: an assign requested while the store holds at least the slot's max
\* is rejected as at capacity at once, and the assignVolunteer call it would
\* make inserts no row.
C12_AssignRespectsCapacity ==
  [][/\ (hpc = "idle" /\ <<hpc, hargs, hresult>>' # <<hpc, hargs, hresult>>
         /\ fullAtRequest')
        => (hpc' = "idle" /\ hresult'.error = ErrAtCapacity)
     /\ (hpc = "assign" /\ fullAtRequest /\ apc = "insert" /\ apc' = "idle")
        => assignments' = assignments]_vars

\* The rows of volunteer v on (w, d) with a route other than r.
HeldElsewhere(w, d, r, v) ==
  {a \in assignments : /\ a.week_id = w /\ a.day_of_week = d
                       /\ a.volunteer_id = Some(v) /\ a.route_id # r}

\* C13: an assignVolunteer call for a volunteer who holds another route on
\* that week and day is rejected at its same-day query, the rejection naming
\* the route number of a row the volunteer holds there, and the assignments
\* are left as they were.
C13_AssignDayConflict ==
  [][\A w \in AdminWeeks, d \in InputDays, r \in Routes, v \in InputVolunteers :
       (AssignCheckDay(w, d, r, v) /\ HeldElsewhere(w, d, r, v) # {})
       => /\ apc' = "idle"
          /\ aresult'.error = ErrDayConflict
          /\ aresult'.route \in {route_number(a.route_id) : a \in HeldElsewhere(w, d, r, v)}
          /\ assignments' = assignments]_vars

\* C14: removeVolunteerFromRoute returns true; it deletes the one row of
\* that (week, day, route, volunteer) if there is one and no other row, and
\* nothing on a store without it; the same call on the state it leaves
\* changes nothing.
C14_RemoveIdempotent ==
  [][\A w \in WeekIds, d \in InputDays, r \in Routes, v \in InputVolunteers :
       RemoveVolunteerFromRoute(w, d, r, v)
       => LET hit == {a \in assignments : MatchesRemove(a, w, d, r, v)}
          IN  /\ rresult' = "true"
              /\ Cardinality(hit) <= 1
              /\ assignments' = assignments \ hit
              /\ \A a \in assignments : a \notin hit => a \in assignments'
              /\ DeleteWhere(assignments', w, d, r, v) = assignments'
              /\ UNCHANGED <<weeks, requirements>>]_vars

\* C14 witness: a removal has returned true, one row is gone, and the other
\* row of the same slot, another volunteer's or one without a volunteer, is
\* still there.
C14_Witness ==
  /\ rresult = "true"
  /\ Cardinality(assignments) = nextId - 1
  /\ \E a \in assignments :
       \E v \in InputVolunteers :
         /\ a.volunteer_id # Some(v)
         /\ ~\E b \in assignments :
               MatchesRemove(b, a.week_id, a.day_of_week, a.route_id, v)

\* The Friday of the Monday-to-Sunday week a day lies in.
EndOfWeekContaining(day) == 7 * (day \div 7) + 4
\* The rows of volunteer v in weeks that start after the week of the day,
\* on a weekday outside newDays.
StaleRows(asgs, v, newDays, day) ==
  {a \in asgs : /\ a.volunteer_id = Some(v)
                /\ week_start_date(a.week_id) > EndOfWeekContaining(day)
                /\ a.day_of_week \notin newDays}
\* The updateVolunteerPreferences call returns in this step.
PrefReturns == upc # "idle" /\ upc' = "idle"

C16_ReportedRemovals ==
  [][PrefReturns =>
       LET deleted == assignments \ assignments'
       IN  /\ uresult'.removedAssignments = Cardinality(deleted)
           /\ uresult'.affectedWeeks = Cardinality({a.week_id : a \in deleted})
           /\ uresult'.affectedWeeks <= uresult'.removedAssignments]_vars

\* The assignment row with this id, if any.
RowsWithId(id) == {a \in assignments : a.id = id}
\* A cancellation row carries the slot and the volunteer of assignment a.
RecordOf(c, a) ==
  /\ c.week_id = a.week_id
  /\ c.day_of_week = a.day_of_week
  /\ c.route_id = a.route_id
  /\ Some(c.volunteer_id) = a.volunteer_id

\* C17: a cancel of an id no assignment has, or of an assignment of another
\* volunteer (or of nobody), is rejected at once and changes neither the
\* cancellations nor the assignments; the rows a cancel does delete belong to
\* the volunteer it was called for.
C17_CancelRejectsNotFoundNotOwner ==
  [][\A p \in Callers :
       /\ \A id \in InputIds, v \in InputVolunteers, reason \in Reasons :
            (/\ CancelFetch(p, id, v, reason)
             /\ \/ RowsWithId(id) = {}
                \/ \E a \in RowsWithId(id) : a.volunteer_id # Some(v))
            => /\ ~cresult'[p].ok
               /\ cresult'[p].error \in {ErrNoRows, ErrNotOwner}
               /\ cpc'[p] = "idle"
               /\ cancellations' = cancellations
               /\ assignments' = assignments
       /\ CancelDelete(p, FALSE) =>
            \A a \in assignments \ assignments' : a.volunteer_id = Some(cargs[p].vol)]_vars

\* One caller was rejected as not the owner, the other's cancel removed a
\* row, and the rejected caller's row is still stored.
C17_Witness ==
  \E p, q \in Callers :
    /\ cresult[p] = CancelError(ErrNotOwner)
    /\ cresult[q] = CancelOk
    /\ cdeleted # {}
    /\ assignments # {}

\* C18: every assignment row a cancel deleted has a cancellation row with
\* its week, day, route and volunteer, and a cancel is at its delete only
\* after it has inserted its cancellation row.
C18_AuditBeforeDelete ==
  /\ \A a \in cdeleted : \E c \in cancellations : RecordOf(c, a)
  /\ \A p \in Callers :
       cpc[p] = "delete" =>
         \E c \in clog : /\ c.assignment_id = Some(cargs[p].id)
                         /\ c.volunteer_id = cargs[p].vol
                         /\ RecordOf(c, Val(cargs[p].assignment))

\* One cancel has deleted its row while another failed with a store error.
C18_Witness ==
  /\ cdeleted # {}
  /\ \E p \in Callers : cresult[p] = CancelError(ErrStore)

\* C19: in every state a cancellation row exists only for an assignment
\* that is deleted, and no assignment has two cancellation rows.
C19_CancelAtomic ==
  /\ \A c \in clog : RowsWithId(Val(c.assignment_id)) = {}
  /\ \A c1, c2 \in clog : c1.assignment_id = c2.assignment_id => c1 = c2

\* C20: a step never removes a cancellation row nor changes a field of one.
C20_CancellationsAppendOnly ==
  [][cancellations \subseteq cancellations']_vars

\* C21: a row getOrCreateWeek inserts for the range of getWeekRange starts
\* on a Monday and ends 4 days later; the corrective update leaves every
\* start date as it is, makes every end date start + 4 days, and a second
\* run of it changes nothing.
C21_WeekDates ==
  [][/\ \A p \in Callers :
          GetWeekInsert(p) =>
            \A w \in weekRows' \ weekRows :
              /\ w.week_start_date % 7 = 0
              /\ w.week_end_date = w.week_start_date + 4
     /\ FixWeekEndDates =>
          /\ {[id |-> w.id, start |-> w.week_start_date, pub |-> w.published] :
                w \in weekRows'}
             = {[id |-> w.id, start |-> w.week_start_date, pub |-> w.published] :
                  w \in weekRows}
          /\ \A w \in weekRows' : w.week_end_date = w.week_start_date + 4
          /\ FixEndDates(weekRows') = weekRows']_vars

\* A week was created by getOrCreateWeek next to a stored one, and every
\* row ends 4 days after its start.
C21_Witness ==
  /\ \E w \in weekRows : w.id > MaxWeekRows
  /\ \E w \in weekRows : w.id <= MaxWeekRows
  /\ \A w \in weekRows : w.week_end_date = w.week_start_date + 4

\* C27: no two week rows share a start date; a row is created unpublished;
\* a call that went on to insert returns the stored row of its start date;
\* and no getOrCreateWeek step removes a row or changes the start date or
\* the published flag of one, a call for an existing start date adding none.
C27_LazyWeekCreation ==
  [][/\ \A a, b \in weekRows' : a.week_start_date = b.week_start_date => a = b
     /\ \A w \in weekRows' : w.id \notin {x.id : x \in weekRows} => ~w.published
     /\ \A w \in weekRows : \E x \in weekRows' :
          /\ x.id = w.id
          /\ x.week_start_date = w.week_start_date
          /\ x.published = w.published
     /\ \A p \in Callers :
          /\ (gpc[p] \in {"insert", "retry"} /\ gpc'[p] = "idle") =>
               /\ ~IsNull(gresult'[p])
               /\ Val(gresult'[p]) \in weekRows'
               /\ Val(gresult'[p]).week_start_date = gargs[p].startDateStr
          /\ (gpc[p] = "idle" /\ gpc'[p] = "idle" /\ gresult'[p] # gresult[p]) =>
               /\ Val(gresult'[p]) \in weekRows
               /\ weekRows' = weekRows]_vars

\* One call has returned the row it created while the other, which found
\* no row either, is about to fetch it after its insert met the conflict.
C27_Witness ==
  \E p, q \in Callers :
    /\ gpc[p] = "retry"
    /\ ~IsNull(gresult[q])
    /\ Val(gresult[q]).id > MaxWeekRows
    /\ Val(gresult[q]).week_start_date = gargs[p].startDateStr

\* C23: an administrator's assignVolunteer or setRouteRequirement leaves
\* the assignments and the requirements of every published week as they were.
C23_PublishedWeekFrozen ==
  [][(\/ AssignInsert
      \/ \E w \in AdminWeeks, d \in InputDays, r \in Routes, m \in 0..MaxCap :
           SetRouteRequirement(w, d, r, m))
     => \A w \in DOMAIN weeks :
          weeks[w].published =>
            /\ {a \in assignments' : a.week_id = w} = {a \in assignments : a.week_id = w}
            /\ {q \in requirements' : q.week_id = w}
               = {q \in requirements : q.week_id = w}]_vars

\* The (day, route, volunteer) values of the rows of week w, and how many
\* rows carry them.
WeekContent(asgs, w) ==
  [rows |-> {[day_of_week |-> a.day_of_week, route_id |-> a.route_id,
              volunteer_id |-> a.volunteer_id] : a \in {x \in asgs : x.week_id = w}},
   count |-> Cardinality({x \in asgs : x.week_id = w})]

\* C28: when copyPreviousWeek returns true the rows the current week had
\* are gone and its (day, route, volunteer) rows are the previous week's,
\* next to what signups added meanwhile; when it throws, every row the
\* current week had when the call was made is still stored.
C28_CopyAllOrNothing ==
  [][(kpc # "idle" /\ kpc' = "idle") =>
       IF kresult'.ok
       THEN /\ kbefore \cap assignments' = {}
            /\ WeekContent(assignments', kargs.previousWeek).rows
               \subseteq WeekContent(assignments', kargs.currentWeek).rows
            /\ WeekContent(assignments', kargs.previousWeek).count
               <= WeekContent(assignments', kargs.currentWeek).count
       ELSE kbefore \subseteq assignments']_vars

\* C24: an insert of a signup that meets the row of its (week, day, route,
\* volunteer), put there by the administrator since the duplicate check,
\* returns 'You are already signed up for this route' and adds no row.
C24_UniqueViolationIsDuplicate ==
  [][\A p \in Procs :
       (/\ pc[p] = "insert"
        /\ pc'[p] = "done"
        /\ \E a \in assignments :
             /\ a.week_id = args[p].week /\ a.day_of_week = args[p].day
             /\ a.route_id = args[p].route /\ a.volunteer_id = Some(args[p].vol))
       => /\ result'[p] = Rejected(ErrDuplicateSignup)
          /\ assignments' = assignments]_vars

\* A signup is at its INSERT, the administrator's assignVolunteer has
\* returned, and the row of the signup's slot and volunteer is stored: the
\* insert raises unique_violation.
C24_Witness ==
  \E p \in Procs :
    /\ pc[p] = "insert"
    /\ apc = "idle" /\ aresult.ok
    /\ \E a \in assignments :
         /\ a.week_id = args[p].week /\ a.day_of_week = args[p].day
         /\ a.route_id = args[p].route /\ a.volunteer_id = Some(args[p].vol)

\* The rejection conditions of a signup (w, d, r, v) on the current store,
\* in their order: the week is not a published one, the volunteer has a row
\* that day, the slot is at the max it resolves to, the volunteer has the
\* slot's row.
RejectionConditions(w, d, r, v) ==
  <<w \notin DOMAIN weeks \/ ~weeks[w].published,
    \E a \in assignments :
      a.week_id = w /\ a.day_of_week = d /\ a.volunteer_id = Some(v),
    Cardinality({a \in assignments : /\ a.week_id = w /\ a.day_of_week = d
                                     /\ a.route_id = r /\ ~IsNull(a.volunteer_id)})
      >= getRouteRequirement(requirements, w, d, r),
    \E a \in assignments :
      /\ a.week_id = w /\ a.day_of_week = d /\ a.route_id = r
      /\ a.volunteer_id = Some(v)>>
RejectionReasons ==
  <<ErrNotPublished, ErrAlreadyAssignedThisDay, ErrSlotFull, ErrDuplicateSignup>>
Several(w, d, r, v) ==
  Cardinality({i \in 1..4 : RejectionConditions(w, d, r, v)[i]}) >= 2
FirstReason(w, d, r, v) ==
  RejectionReasons[CHOOSE i \in 1..4 :
                     /\ RejectionConditions(w, d, r, v)[i]
                     /\ \A j \in 1..(i - 1) : ~RejectionConditions(w, d, r, v)[j]]

\* C25: a signup called in a state where several rejection conditions hold
\* is rejected with the first of them in the order NotPublished,
\* AlreadyAssignedThisDay, SlotFull, DuplicateSignup.
C25_RejectionOrder ==
  [][/\ \A w \in InputWeeks, d \in InputDays, r \in Routes, v \in InputVolunteers :
          (CheckPublished(1, w, d, r, v) /\ Several(w, d, r, v)) =>
            IF RejectionConditions(w, d, r, v)[1]
            THEN pc'[1] = "done" /\ result'[1].error = ErrNotPublished
            ELSE pc'[1] # "done"
     /\ (Completes(1) /\ Several(args[1].week, args[1].day, args[1].route, args[1].vol))
          => result'[1].error
             = FirstReason(args[1].week, args[1].day, args[1].route, args[1].vol)]_vars

\* A call is at its day check for a volunteer who has a row that day, on a
\* slot that is full.
C25_Witness ==
  /\ pc[1] = "checkDay"
  /\ RejectionConditions(args[1].week, args[1].day, args[1].route, args[1].vol)[2]
  /\ RejectionConditions(args[1].week, args[1].day, args[1].route, args[1].vol)[3]

\* C30: signup calls that run one at a time with no other writer never
\* return 'You are already signed up for this route'; a volunteer who holds
\* the slot's row is rejected at the day check.
C30_NoDuplicateWhenSequential ==
  [][/\ Completes(1) => result'[1].error # ErrDuplicateSignup
     /\ (/\ pc[1] = "checkDay"
         /\ RejectionConditions(args[1].week, args[1].day, args[1].route,
                                args[1].vol)[4])
          => /\ pc'[1] = "done"
             /\ result'[1].error = ErrAlreadyAssignedThisDay]_vars

\* A call is at its day check for a volunteer who holds the row of the
\* very slot it asks for.
C30_Witness ==
  /\ pc[1] = "checkDay"
  /\ RejectionConditions(args[1].week, args[1].day, args[1].route, args[1].vol)[4]
  /\ ~RejectionConditions(args[1].week, args[1].day, args[1].route, args[1].vol)[3]

\* The entry s comes before the entry t: an earlier week start date, or the
\* same week and an earlier weekday, or the same day and a lower route number.
Before(s, t) ==
  \/ week_start_date(s.weekId) < week_start_date(t.weekId)
  \/ /\ s.weekId = t.weekId
     /\ \/ DayIndex(s.dayOfWeek) < DayIndex(t.dayOfWeek)
        \/ /\ s.dayOfWeek = t.dayOfWeek
           /\ s.routeNumber < t.routeNumber

\* C26: the list getOpenSlots returned is ordered by week start date, then
\* by weekday Monday..Friday, then by route number, and holds no
\* (week, day, route) twice.
C26_ListingOrder ==
  \A i, j \in 1..Len(openSlots.slots) :
    i < j =>
      /\ Before(openSlots.slots[i], openSlots.slots[j])
      /\ <<openSlots.slots[i].weekId, openSlots.slots[i].dayOfWeek,
           openSlots.slots[i].routeId>>
         # <<openSlots.slots[j].weekId, openSlots.slots[j].dayOfWeek,
             openSlots.slots[j].routeId>>

\* A returned list with slots of two weeks, of two days of one week and of
\* two routes of one day.
C26_Witness ==
  \E i, j, k, l \in 1..Len(openSlots.slots) :
    /\ openSlots.slots[i].weekId # openSlots.slots[j].weekId
    /\ openSlots.slots[i].weekId = openSlots.slots[k].weekId
    /\ openSlots.slots[i].dayOfWeek # openSlots.slots[k].dayOfWeek
    /\ openSlots.slots[i].weekId = openSlots.slots[l].weekId
    /\ openSlots.slots[i].dayOfWeek = openSlots.slots[l].dayOfWeek
    /\ openSlots.slots[i].routeId # openSlots.slots[l].routeId

\* C29: a call holds at most one advisory lock and none once it has
\* returned, and under fair scheduling every call in progress, waiting for
\* its lock or not, returns a result.
C29_EverySignupReturns ==
  /\ [](\A p \in Callers :
          /\ Cardinality({l \in locks : l.holder = p}) <= 1
          /\ pc[p] \in {"idle", "done"} => \A l \in locks : l.holder # p)
  /\ \A p \in Callers : (pc[p] \notin {"idle", "done"}) ~> (pc[p] = "done")

\* A call waits for the lock of its slot while another call holds it.
C29_Witness ==
  \E p, q \in Callers :
    /\ p # q
    /\ pc[p] = "lock"
    /\ [key |-> LockKey(args[p].week, args[p].day, args[p].route), holder |-> q]
         \in locks

\* What a signup (w, d, r, v) that passed the published check returns on
\* the stored weeks, requirements and assignments.
ResultOnStore(w, d, r, v) ==
  LET n == CountAssigned(assignments, w, d, r)
      max == SelectMaxVolunteers(requirements, w, d, r)
  IN  IF \E a \in assignments :
            a.week_id = w /\ a.day_of_week = d /\ a.volunteer_id = Some(v)
      THEN Rejected(ErrAlreadyAssignedThisDay)
      ELSE IF AtCapacity(n, max) THEN SlotFull(n, max)
      ELSE IF w \notin DOMAIN weeks THEN Rejected(ErrOther)
      ELSE Accepted(n + 1, max)

\* The slots getOpenSlots lists for v on the stored weeks, requirements and
\* assignments.
OpenOnStore(v) ==
  {t \in WeekIds \X DaySet \X Routes :
     /\ weeks[t[1]].published
     /\ CountAssigned(assignments, t[1], t[2], t[3])
          < getRouteRequirement(requirements, t[1], t[2], t[3])
     /\ ~\E a \in assignments :
           /\ a.week_id = t[1] /\ a.day_of_week = t[2] /\ a.route_id = t[3]
           /\ a.volunteer_id = Some(v)}

\* C22: updateVolunteerPreferences stores every newDays, the empty set
\* included, and what a signup returns and what getOpenSlots lists are
\* determined by the stored weeks, requirements and assignments alone,
\* whatever the availability_days of the volunteer.
C22_AvailabilityNotConsulted ==
  [][/\ \A v \in InputVolunteers, newDays \in SUBSET InputDays :
          UpdateProfile(v, newDays) => availability'[v] = newDays
     /\ \A w \in InputWeeks, d \in InputDays, r \in Routes, v \in InputVolunteers :
          CheckPublished(1, w, d, r, v)
          => (pc'[1] = "done" <=> (w \in DOMAIN weeks /\ ~weeks[w].published))
     /\ Completes(1)
          => /\ result'[1] = ResultOnStore(args[1].week, args[1].day,
                                           args[1].route, args[1].vol)
             /\ result'[1].success <=> assignments' # assignments
     /\ \A v \in InputVolunteers :
          GetOpenSlotsCall(v)
          => {<<openSlots'.slots[i].weekId, openSlots'.slots[i].dayOfWeek,
                openSlots'.slots[i].routeId>> : i \in 1..Len(openSlots'.slots)}
             = OpenOnStore(v)]_vars

\* A volunteer whose stored availability is empty is listed the slot
\* of a day and is at the insert of a signup for it that will be accepted.
C22_Witness ==
  /\ pc[1] = "insert"
  /\ availability[args[1].vol] = {}
  /\ upc = "idle" /\ uresult # NoPrefResult
  /\ args[1].week \in DOMAIN weeks
  /\ openSlots.vol = args[1].vol
  /\ \E i \in 1..Len(openSlots.slots) :
       /\ openSlots.slots[i].weekId = args[1].week
       /\ openSlots.slots[i].dayOfWeek = args[1].day
       /\ openSlots.slots[i].routeId = args[1].route
====
